---- MODULE Spec2Model ----
(***************************************************************************)
(* Attendance Tracker API: the handlers of src/server.js (routes under     *)
(* /api) and of src/unnamed/part_000 (the same routes without the prefix), *)
(* each step of a handler being one of the moments the code has: the       *)
(* storage settles the call the handler awaits, or the handler goes on     *)
(* from its await (in a later turn of the event loop) to its next call or  *)
(* to its response.                                                        *)
(*                                                                         *)
(* The relational store is PostgreSQL at its default isolation level       *)
(* (READ COMMITTED): a statement sees the committed rows and the rows its  *)
(* own transaction wrote; a transaction keeps the rows it wrote locked     *)
(* until COMMIT or ROLLBACK, and a statement of another session that needs *)
(* such a row waits; CURRENT_TIMESTAMP is the start time of the            *)
(* transaction (of the statement, outside a transaction block); a value    *)
(* drawn from a SERIAL sequence is never given back.                       *)
(*                                                                         *)
(* Spec is server.js serving requests that its CORS policy lets through    *)
(* and whose bodies express.json() parses, SpecBoot the same while         *)
(* initializeDatabase_table runs, SpecPartBoot part_000 while its          *)
(* initializeDatabase_table runs, SpecEntry server.js and part_000 side by *)
(* side, each on a database of its own, fed requests of every route from   *)
(* every origin, bodies that the parser refuses among them.                *)
(***************************************************************************)
EXTENDS Integers, FiniteSets, Sequences, TLC

\* ------------------------------------------------------------- bounds
MaxReq == 2        \* requests served in one behaviour
MaxClock == 2      \* last reading of the database clock

Reqs == 1..MaxReq

\* ------------------------------------------------------------- inputs
EmpIds == {"E1", "E2"}
Names == {"Alice", "Bob"}
Types == {"WFO", "WFH"}
Dates == {"2024-01-10"}

Absent == "<undefined>"     \* a field the JSON body does not have
Missing == {Absent, ""}     \* the two falsy values a body field can take here

\* !x of JavaScript on a body field
Falsy(v) == v \in Missing

ValidEmployeeBodies == [emp_id : EmpIds, name : Names]
ValidAttendanceBodies ==
  [emp_id : EmpIds, emp_name : Names, attendance_type : Types, date : Dates]

BaseEmployeeBody == [emp_id |-> "E1", name |-> "Alice"]
BaseAttendanceBody ==
  [emp_id |-> "E1", emp_name |-> "Alice", attendance_type |-> "WFO",
   date |-> "2024-01-10"]

\* bodies with one required field absent or empty
BadEmployeeBodies ==
  {[BaseEmployeeBody EXCEPT ![f] = m] : f \in {"emp_id", "name"}, m \in Missing}
BadAttendanceBodies ==
  {[BaseAttendanceBody EXCEPT ![f] = m] :
     f \in {"emp_id", "emp_name", "attendance_type", "date"}, m \in Missing}

\* the bodies of the requests served: for each employee and each name one
\* attendance body, of either type, and the bodies that lack a field
ServedAttendanceBodies ==
  {b \in ValidAttendanceBodies :
     (b.attendance_type = "WFO")
       <=> ((b.emp_id = "E1") <=> (b.emp_name = "Alice"))}

EmployeeBodies == ValidEmployeeBodies \cup BadEmployeeBodies
AttendanceBodies == ServedAttendanceBodies \cup BadAttendanceBodies

\* ids the sequence can have given out, and ids it has not
DeleteIds == 1..(MaxReq + 1)

\* ------------------------------------------------------------- state
VARIABLES
  employees,            \* committed rows of table employees
  attendance_records,   \* committed rows of table attendance_records
  id_seq,               \* last value drawn from the SERIAL sequence of id
  now,                  \* the database clock
  pc,                   \* pc[r]: position of the handler serving request r
  req,                  \* req[r]: the route and body of a request in flight
  conn,                 \* conn[r]: the pool client held by r and its state
  txn,                  \* txn[r]: transaction start, rows written, and the
                        \* result or error of the call the storage settled
                        \* last, until the handler has gone on from it
  last,                 \* the exchange the last step ended, if it ended one:
                        \* the request, the responses its handler sent,
                        \* whether a storage call of it failed
  stats,                \* stats[r]: the stats object the handler of
                        \* GET /stats has composed so far
  checked_out,          \* the number of clients of the pool that are
                        \* checked out (connected and not yet released)
  process,              \* "running", or "exited" once the process has
                        \* ended: on an unhandled rejection, or by
                        \* process.exit(-1) of the listener of pool 'error'
  boot,                 \* the position of initializeDatabase_table
  \* the deployment of the other entry point (src/unnamed/part_000), on a
  \* database of its own: the same state, and the number of requests that
  \* server.js has refused and part_000 has served
  part_employees, part_attendance_records, part_id_seq, part_pc, part_req,
  part_conn, part_txn, part_last, part_stats, part_checked_out, part_process,
  part_boot, refused

\* the state of the deployment of server.js but for `last`
server == <<employees, attendance_records, id_seq, pc, req, conn, txn, stats,
            checked_out, process, boot>>

\* the state of the deployment of part_000 but for `part_last`
part == <<part_employees, part_attendance_records, part_id_seq, part_pc,
          part_req, part_conn, part_txn, part_stats, part_checked_out,
          part_process, part_boot>>

vars == <<server, last, now, part, part_last, refused>>

NoReq == [route |-> "none"]

\* the committed tables
Tables(emps, recs) == [employees |-> emps, attendance_records |-> recs]

\* no transaction and no result: start is the time of BEGIN; id, rowCount
\* and rows are result.rows[0].id, result.rowCount and result.rows; err is
\* the error the call that failed rejected with and failedAt that call;
\* thrown is the error thrown out of the catch block; before and after are
\* the committed tables as the call settled last found and left them, at
\* the time it was settled
NoTxn == [start |-> 0, empAdd |-> {}, empDel |-> {}, recAdd |-> {},
          recDel |-> {}, empLocks |-> {}, recLocks |-> {}, idLocks |-> {},
          id |-> 0, rowCount |-> 0, rows |-> <<>>, err |-> "",
          failedAt |-> "", thrown |-> "", before |-> Tables({}, {}),
          after |-> Tables({}, {}), at |-> 0]

\* const stats = {}, and the rows of attendance_records its later queries
\* have read
NoStats == [totalEmployees |-> 0, totalRecords |-> 0, wfoRecords |-> 0,
            wfhRecords |-> 0, attendanceByType |-> <<>>, reads |-> {}]

StorageError == "storage failure"
ForeignKeyError == "violates foreign key constraint"
GenericError == "Internal server error"

\* ------------------------------------------------------------- schema
\* the key, were the name part of it
EmployeeKeyWithName(x) == <<x.emp_id, x.name>>

\* employees: emp_id TEXT PRIMARY KEY, the arbiter of ON CONFLICT (emp_id)
EmployeeKey(x) == x.emp_id

\* the key, were attendance_type part of it
AttendanceKeyWithType(x) == <<x.emp_id, x.date, x.attendance_type>>

\* attendance_records: UNIQUE(emp_id, date), the arbiter of
\* ON CONFLICT (emp_id, date)
AttendanceKey(x) == <<x.emp_id, x.date>>

\* FOREIGN KEY (emp_id) REFERENCES employees (emp_id), checked on insert
ForeignKeyOk(emps, e) == \E x \in emps : x.emp_id = e

\* ------------------------------------------------------------- statements
\* the employee upsert written as DELETE FROM employees and INSERT
UpsertEmployeeDeletingOthers(emps, e, n, ts) ==
  {[emp_id |-> e, name |-> n, created_at |-> ts, updated_at |-> ts]}

\* the employee upsert, were its DO UPDATE to leave name out
UpsertEmployeeKeepingName(emps, e, n, ts) ==
  LET new == [emp_id |-> e, name |-> n, created_at |-> ts, updated_at |-> ts]
  IN IF \E x \in emps : EmployeeKey(x) = EmployeeKey(new)
     THEN {IF EmployeeKey(x) = EmployeeKey(new)
           THEN [x EXCEPT !.updated_at = ts]
           ELSE x : x \in emps}
     ELSE emps \cup {new}

\* the employee upsert, were its DO UPDATE to set created_at as well
UpsertEmployeeResettingCreatedAt(emps, e, n, ts) ==
  LET new == [emp_id |-> e, name |-> n, created_at |-> ts, updated_at |-> ts]
  IN IF \E x \in emps : EmployeeKey(x) = EmployeeKey(new)
     THEN {IF EmployeeKey(x) = EmployeeKey(new) THEN new ELSE x : x \in emps}
     ELSE emps \cup {new}

\* INSERT INTO employees (emp_id, name, updated_at)
\* VALUES ($1, $2, CURRENT_TIMESTAMP)
\* ON CONFLICT (emp_id) DO UPDATE SET name = $2, updated_at = CURRENT_TIMESTAMP
\* (created_at takes its default, CURRENT_TIMESTAMP, on insert)
UpsertEmployee(emps, e, n, ts) ==
  LET new == [emp_id |-> e, name |-> n, created_at |-> ts, updated_at |-> ts]
  IN IF \E x \in emps : EmployeeKey(x) = EmployeeKey(new)
     THEN {IF EmployeeKey(x) = EmployeeKey(new)
           THEN [x EXCEPT !.name = n, !.updated_at = ts]
           ELSE x : x \in emps}
     ELSE emps \cup {new}

\* the attendance upsert, were its DO UPDATE to leave emp_name out
UpsertRecordKeepingName(recs, newid, e, n, t, d, ts) ==
  LET new == [id |-> newid, emp_id |-> e, emp_name |-> n,
              attendance_type |-> t, date |-> d, timestamp |-> ts]
  IN IF \E x \in recs : AttendanceKey(x) = AttendanceKey(new)
     THEN {IF AttendanceKey(x) = AttendanceKey(new)
           THEN [x EXCEPT !.attendance_type = t, !.timestamp = ts]
           ELSE x : x \in recs}
     ELSE recs \cup {new}

\* INSERT INTO attendance_records (emp_id, emp_name, attendance_type, date)
\* VALUES ($1, $2, $3, $4)
\* ON CONFLICT (emp_id, date) DO UPDATE
\*   SET emp_name = $2, attendance_type = $3, timestamp = CURRENT_TIMESTAMP
\* (id takes nextval of the sequence, timestamp its default, on insert)
UpsertRecord(recs, newid, e, n, t, d, ts) ==
  LET new == [id |-> newid, emp_id |-> e, emp_name |-> n,
              attendance_type |-> t, date |-> d, timestamp |-> ts]
  IN IF \E x \in recs : AttendanceKey(x) = AttendanceKey(new)
     THEN {IF AttendanceKey(x) = AttendanceKey(new)
           THEN [x EXCEPT !.emp_name = n, !.attendance_type = t,
                          !.timestamp = ts]
           ELSE x : x \in recs}
     ELSE recs \cup {new}

\* whether the statement above takes the INSERT arm
InsertsRecord(recs, e, n, t, d) ==
  LET new == [id |-> 0, emp_id |-> e, emp_name |-> n,
              attendance_type |-> t, date |-> d, timestamp |-> 0]
  IN ~ \E x \in recs : AttendanceKey(x) = AttendanceKey(new)

\* RETURNING id: the id of the row the statement inserted or updated
ReturningId(before, after, newid, e, n, t, d) ==
  IF InsertsRecord(before, e, n, t, d)
  THEN newid
  ELSE LET new == [id |-> 0, emp_id |-> e, emp_name |-> n,
                   attendance_type |-> t, date |-> d, timestamp |-> 0]
       IN (CHOOSE x \in after : AttendanceKey(x) = AttendanceKey(new)).id

\* the DELETE, were it to have no WHERE clause
DeleteWithoutWhere(recs, id) == {}

\* DELETE FROM attendance_records WHERE id = $1
DeleteById(recs, id) == {x \in recs : x.id # id}

\* result.rowCount of the DELETE
RowCount(recs, id) == Cardinality({x \in recs : x.id = id})

\* the most rows either table can hold over these inputs
MaxRows == Cardinality(EmpIds \X Dates)

\* SELECT COUNT(*) as count ...: a bigint, which reaches the handler as a
\* decimal string in rows[0].count
CountRows(rows) == ToString(Cardinality(rows))

\* parseInt of a decimal string
parseInt(s) == CHOOSE n \in 0..MaxRows : ToString(n) = s

\* ... FROM attendance_records WHERE attendance_type = 'WFO' (or 'WFH')
OfType(recs, t) == {x \in recs : x.attendance_type = t}

\* the grouping, were it to count rows of every type in each group
GroupByTypeCountingAll(recs) ==
  {[attendance_type |-> t, count |-> CountRows(recs)] :
     t \in {x.attendance_type : x \in recs}}

\* SELECT attendance_type, COUNT(*) as count FROM attendance_records
\* GROUP BY attendance_type
GroupByType(recs) ==
  {[attendance_type |-> t, count |-> CountRows(OfType(recs, t))] :
     t \in {x.attendance_type : x \in recs}}

\* ORDER BY count DESC: every order of the groups that has no smaller count
\* before a larger one (groups of equal count come in either order)
OrderByCountDesc(groups) ==
  {s \in [1..Cardinality(groups) -> groups] :
     /\ \A i, j \in DOMAIN s : i # j => s[i] # s[j]
     /\ \A i, j \in DOMAIN s :
          i < j => parseInt(s[i].count) >= parseInt(s[j].count)}

\* ------------------------------------------------------------- validation
\* if (!emp_id || !name)
EmployeeBodyRejected(b) == Falsy(b.emp_id) \/ Falsy(b.name)

\* the check, were it to leave date out
AttendanceBodyRejectedWithoutDate(b) ==
  Falsy(b.emp_id) \/ Falsy(b.emp_name) \/ Falsy(b.attendance_type)

\* if (!emp_id || !emp_name || !attendance_type || !date)
AttendanceBodyRejected(b) ==
  Falsy(b.emp_id) \/ Falsy(b.emp_name) \/ Falsy(b.attendance_type)
    \/ Falsy(b.date)

\* ------------------------------------------------------------- responses
\* res.status(status).json(body); a field the body does not have is "" or 0
Response(status, error, id, emp_id) ==
  [status |-> status, error |-> error, id |-> id, emp_id |-> emp_id]

\* message: '...' in a body
Saying(text, response) == response @@ [message |-> text]

\* new Date().toISOString()
IsoTime == "<toISOString>"

\* timestamp: new Date().toISOString(), which server.js adds to its 200, 403,
\* 500 and 503 bodies
Stamped(response) == response @@ [timestamp |-> IsoTime]

\* the exchange of a handler that has ended: sent is the sequence of its
\* res.json(...) and res.status(...).json(...) calls, failed the first of
\* its storage calls that failed ("" when none did), before and after the
\* committed tables as the last storage call of the handler found and left
\* them, at the time it was settled (for a handler that made no call, the
\* tables and the time when it answered)
Exchange(request, sent, failed, before, after, at) ==
  [request |-> request, sent |-> sent, failed |-> failed, before |-> before,
   after |-> after, at |-> at]

\* the stats object of GET /stats as a body
StatsResponse(st) ==
  [status |-> 200, error |-> "", id |-> 0, emp_id |-> "",
   totalEmployees |-> st.totalEmployees, totalRecords |-> st.totalRecords,
   wfoRecords |-> st.wfoRecords, wfhRecords |-> st.wfhRecords,
   attendanceByType |-> st.attendanceByType]

\* the exchange of a GET /stats handler, with the contents of
\* attendance_records its queries on that table read
StatsExchange(request, sent, failed, before, after, at, reads) ==
  [request |-> request, sent |-> sent, failed |-> failed, before |-> before,
   after |-> after, at |-> at, reads |-> reads]

\* res.json(result.rows): the rows as they came from the storage
RowsResponse(rows) ==
  [status |-> 200, error |-> "", id |-> 0, emp_id |-> "", rows |-> rows]

\* ------------------------------------------------------------- sessions
Committed == Tables(employees, attendance_records)

InTx(r) == conn[r] = "intx"
OpenTx(r) == conn[r] \in {"intx", "aborted", "released"}

\* what a statement of r sees: the committed rows and its own writes
EmpView(r) == (employees \ txn[r].empDel) \cup txn[r].empAdd
RecView(r) == (attendance_records \ txn[r].recDel) \cup txn[r].recAdd

\* CURRENT_TIMESTAMP for a statement of r
StmtTime(r) == IF InTx(r) THEN txn[r].start ELSE now

\* the wait, were the employee upsert to take no row lock
EmpNeverBlocked(r, k) == FALSE

\* a statement of r on the employee row with this key waits for another
\* open transaction that wrote it
EmpBlocked(r, k) == \E o \in Reqs \ {r} : OpenTx(o) /\ k \in txn[o].empLocks

RecBlocked(r, k) == \E o \in Reqs \ {r} : OpenTx(o) /\ k \in txn[o].recLocks

\* a DELETE sees committed rows only, and waits for a transaction that
\* updated the row it is to delete
DeleteBlocked(r, id) == \E o \in Reqs \ {r} : OpenTx(o) /\ id \in txn[o].idLocks

\* requests are numbered in the order they arrive, at a process that runs
Arrives(r) ==
  /\ process = "running"
  /\ pc[r] = "idle"
  /\ \A o \in Reqs : o < r => pc[o] # "idle"

\* ------------------------------------------------------------- start
NoExchange ==
  Exchange(NoReq, <<>>, "", Tables({}, {}), Tables({}, {}), 0)

\* CREATE TABLE IF NOT EXISTS keeps what earlier runs of the server stored:
\* nothing, or what one POST /attendance served at time 1 left
StoredAtStart ==
  {[employees |-> {}, attendance_records |-> {}, id_seq |-> 0],
   [employees |-> UpsertEmployee({}, "E2", "Bob", 1),
    attendance_records |->
      UpsertRecord({}, 1, "E2", "Bob", "WFO", "2024-01-10", 1),
    id_seq |-> 1]}

\* server.js on the tables s, with this position of initializeDatabase_table;
\* no request has arrived
ServerStarts(s, at) ==
  /\ employees = s.employees
  /\ attendance_records = s.attendance_records
  /\ id_seq = s.id_seq
  /\ pc = [r \in Reqs |-> "idle"]
  /\ req = [r \in Reqs |-> NoReq]
  /\ conn = [r \in Reqs |-> "none"]
  /\ txn = [r \in Reqs |-> NoTxn]
  /\ last = NoExchange
  /\ stats = [r \in Reqs |-> NoStats]
  /\ checked_out = 0
  /\ process = "running"
  /\ boot = at

\* part_000 on the tables s, with this position of its
\* initializeDatabase_table; no request has arrived
PartStarts(s, at) ==
  /\ part_employees = s.employees
  /\ part_attendance_records = s.attendance_records
  /\ part_id_seq = s.id_seq
  /\ part_pc = [r \in Reqs |-> "idle"]
  /\ part_req = [r \in Reqs |-> NoReq]
  /\ part_conn = [r \in Reqs |-> "none"]
  /\ part_txn = [r \in Reqs |-> NoTxn]
  /\ part_last = NoExchange
  /\ part_stats = [r \in Reqs |-> NoStats]
  /\ part_checked_out = 0
  /\ part_process = "running"
  /\ part_boot = at
  /\ refused = 0

\* part_000 is not deployed
NoPart ==
  PartStarts([employees |-> {}, attendance_records |-> {}, id_seq |-> 0],
             "done")

\* server.js is not deployed
NoServer ==
  ServerStarts([employees |-> {}, attendance_records |-> {}, id_seq |-> 0],
               "done")

\* server.js alone: the tables exist, no request has arrived
Init ==
  /\ \E s \in StoredAtStart : ServerStarts(s, "done")
  /\ now = 1
  /\ NoPart

\* a step of server.js alone
PartIdle == part_last' = NoExchange /\ UNCHANGED part

\* a step of part_000 alone
ServerIdle == last' = NoExchange /\ UNCHANGED server

\* the database clock advances
Tick ==
  /\ now < MaxClock
  /\ now' = now + 1
  /\ last' = NoExchange
  /\ part_last' = NoExchange
  /\ UNCHANGED <<server, part, refused>>

\* what becomes of the rejected promise of an async handler: Express 4 does
\* not look at it, and Node either goes on, the request unanswered
\* ("ignored"), or ends the process on the unhandled rejection ("exit", the
\* default since Node 15); Express 5 hands the error to next(err), and the
\* error-handling middleware answers 503 when err.code is 'ECONNREFUSED' and
\* 500 otherwise
RejectedOutcomes == {"ignored", "exit", "500", "503"}

\* the responses of the error-handling middleware of server.js to an error
\* handed to next(err) whose message does not name the CORS policy: the
\* rejection, or an error of a middleware before the routes
Rejected(outcome) ==
  CASE outcome = "503" ->
         <<Stamped(Saying("Unable to connect to database",
                     Response(503, "Database connection failed", 0, "")))>>
    [] outcome = "500" -> <<Stamped(Response(500, GenericError, 0, ""))>>
    [] OTHER -> <<>>

\* the handler of r has returned
Ends(r) == pc' = [pc EXCEPT ![r] = "done"] /\ req' = [req EXCEPT ![r] = NoReq]

\* the storage has settled the call that the handler of r awaits: the result
\* or the error is on its way to the handler, which goes on from its await
\* in a later turn of the event loop
Settled(message, call, after) ==
  [NoTxn EXCEPT !.err = message, !.failedAt = call, !.before = Committed,
                !.after = after, !.at = now]

\* the response of the catch block of a handler: 500 with err.message
Caught(r) == <<Stamped(Response(500, txn[r].err, 0, ""))>>

\* the handler of r goes on from its await to its response: sent is what it
\* sends when the call succeeded, the catch block answers when it failed
Answers(r, sent) ==
  /\ last' = Exchange(req[r], IF txn[r].err = "" THEN sent ELSE Caught(r),
                      txn[r].failedAt, txn[r].before, txn[r].after, txn[r].at)
  /\ txn' = [txn EXCEPT ![r] = NoTxn]
  /\ Ends(r)

\* the process ends with the handlers of these requests ended: the other
\* requests in flight are never answered, the pool is gone, and the server
\* ends the sessions of its clients, rolling back what they had not
\* committed; what the storage has committed stays
ProcessEnds(ended) ==
  /\ process' = "exited"
  /\ pc' = [o \in Reqs |-> IF o \in ended THEN "done"
                           ELSE IF pc[o] \in {"idle", "done"} THEN pc[o]
                           ELSE "killed"]
  /\ req' = [o \in Reqs |-> NoReq]
  /\ conn' = [o \in Reqs |-> "none"]
  /\ txn' = [o \in Reqs |-> NoTxn]
  /\ stats' = [o \in Reqs |-> NoStats]
  /\ checked_out' = 0

\* Node ends the process when the promise of the handler of r is rejected
\* and nothing handles the rejection
Exits(r) == ProcessEnds({r})

\* pool.on('error', ...): the pool reports an error of an idle client, and
\* the listener ends the process with process.exit(-1)
PoolError ==
  /\ process = "running"
  /\ ProcessEnds({})
  /\ last' = NoExchange
  /\ UNCHANGED <<employees, attendance_records, id_seq, boot>>

\* ------------------------------------------------------------- POST /employees
\* the validation, and the upsert of await pool.query(...) in the storage
PostEmployees(r, b, ok) ==
  /\ Arrives(r)
  /\ LET request == [route |-> "POST /employees", body |-> b]
         after == UpsertEmployee(employees, b.emp_id, b.name, now)
     IN IF EmployeeBodyRejected(b)
        THEN /\ ok
             /\ Ends(r)
             /\ last' = Exchange(request,
                  <<Response(400, "Employee ID and name are required", 0, "")>>,
                  "", Committed, Committed, now)
             /\ UNCHANGED <<employees, txn>>
        ELSE /\ ~ EmpBlocked(r, EmployeeKey(b))
             /\ IF ok
                THEN /\ employees' = after
                     /\ txn' = [txn EXCEPT ![r] =
                          Settled("", "", Tables(after, attendance_records))]
                ELSE /\ txn' = [txn EXCEPT ![r] =
                          Settled(StorageError, "query", Committed)]
                     /\ UNCHANGED employees
             /\ req' = [req EXCEPT ![r] = request]
             /\ pc' = [pc EXCEPT ![r] = "resultPostEmployees"]
             /\ last' = NoExchange
  /\ UNCHANGED <<attendance_records, id_seq, conn, stats, checked_out,
                 process, boot>>

\* the handler goes on from await pool.query(...): res.json({message,
\* emp_id, timestamp}), or the catch block
PostEmployeesAnswers(r) ==
  /\ pc[r] = "resultPostEmployees"
  /\ Answers(r, <<Stamped(Saying("Employee saved successfully",
                            Response(200, "", 0, req[r].body.emp_id)))>>)
  /\ UNCHANGED <<employees, attendance_records, id_seq, conn, stats,
                 checked_out, process, boot>>

\* ------------------------------------------------------------- DELETE /attendance/:id
\* the DELETE of await pool.query(...) in the storage
DeleteAttendance(r, id, ok) ==
  /\ Arrives(r)
  /\ ~ DeleteBlocked(r, id)
  /\ LET after == DeleteById(attendance_records, id)
     IN IF ok
        THEN /\ attendance_records' = after
             /\ txn' = [txn EXCEPT ![r] =
                  [Settled("", "", Tables(employees, after)) EXCEPT
                     !.rowCount = RowCount(attendance_records, id)]]
        ELSE /\ txn' = [txn EXCEPT ![r] =
                  Settled(StorageError, "query", Committed)]
             /\ UNCHANGED attendance_records
  /\ req' = [req EXCEPT ![r] = [route |-> "DELETE /attendance/:id", id |-> id]]
  /\ pc' = [pc EXCEPT ![r] = "resultDelete"]
  /\ last' = NoExchange
  /\ UNCHANGED <<employees, id_seq, conn, stats, checked_out, process, boot>>

\* the handler goes on from await pool.query(...): 404 when
\* result.rowCount === 0, else res.json({message, timestamp}), or the catch
\* block
DeleteAttendanceAnswers(r) ==
  /\ pc[r] = "resultDelete"
  /\ Answers(r, IF txn[r].rowCount = 0
                THEN <<Response(404, "Record not found", 0, "")>>
                ELSE <<Stamped(Saying("Record deleted successfully",
                                 Response(200, "", 0, "")))>>)
  /\ UNCHANGED <<employees, attendance_records, id_seq, conn, stats,
                 checked_out, process, boot>>

\* ------------------------------------------------------------- POST /attendance
\* The handler up to its first await: the validation, and
\* const client = await pool.connect(), outside the try block. A connect
\* that rejects rejects the promise of the handler.
AttStart(r, b, connected, outcome) ==
  /\ Arrives(r)
  /\ connected => outcome = "ignored"
  /\ LET request == [route |-> "POST /attendance", body |-> b]
     IN IF AttendanceBodyRejected(b)
        THEN /\ connected
             /\ Ends(r)
             /\ last' = Exchange(request,
                  <<Response(400, "All fields are required", 0, "")>>,
                  "", Committed, Committed, now)
             /\ UNCHANGED <<conn, txn, stats, checked_out, process>>
        ELSE IF ~ connected
        THEN /\ last' = Exchange(request, Rejected(outcome), "pool.connect",
                                 Committed, Committed, now)
             /\ IF outcome = "exit"
                THEN Exits(r)
                ELSE /\ Ends(r)
                     /\ UNCHANGED <<conn, txn, stats, checked_out, process>>
        ELSE /\ req' = [req EXCEPT ![r] = request]
             /\ pc' = [pc EXCEPT ![r] = "begin"]
             /\ conn' = [conn EXCEPT ![r] = "idle"]
             /\ checked_out' = checked_out + 1
             /\ last' = NoExchange
             /\ UNCHANGED <<txn, stats, process>>
  /\ UNCHANGED <<employees, attendance_records, id_seq, boot>>

\* a statement of r fails: the error is thrown into the catch block, and an
\* open transaction is aborted (its locks stay until ROLLBACK)
StatementFails(r, statement, message) ==
  /\ txn' = [txn EXCEPT ![r].err = message, ![r].failedAt = statement]
  /\ conn' = [conn EXCEPT ![r] = IF InTx(r) THEN "aborted" ELSE @]
  /\ pc' = [pc EXCEPT ![r] = "rollback"]

\* await client.query('BEGIN'), which reads the clock
AttBegin(r, ok) ==
  /\ pc[r] = "begin"
  /\ IF ok
     THEN /\ conn' = [conn EXCEPT ![r] = "intx"]
          /\ txn' = [txn EXCEPT ![r].start = now]
          /\ pc' = [pc EXCEPT ![r] = "employee"]
     ELSE StatementFails(r, "BEGIN", StorageError)
  /\ last' = NoExchange
  /\ UNCHANGED <<employees, attendance_records, id_seq, req, stats,
                 checked_out, process, boot>>

\* the employee upsert on the client of r
AttEmployee(r, ok) ==
  /\ pc[r] = "employee"
  /\ ~ EmpBlocked(r, EmployeeKey([emp_id |-> req[r].body.emp_id,
                                    name |-> req[r].body.emp_name]))
  /\ IF ok
     THEN LET after == UpsertEmployee(EmpView(r), req[r].body.emp_id,
                                      req[r].body.emp_name, StmtTime(r))
          IN /\ IF InTx(r)
                THEN /\ txn' = [txn EXCEPT
                          ![r].empAdd = after \ employees,
                          ![r].empDel = employees \ after,
                          ![r].empLocks =
                            {EmployeeKey([emp_id |-> req[r].body.emp_id,
                                          name |-> req[r].body.emp_name])}]
                     /\ UNCHANGED employees
                ELSE /\ employees' = after
                     /\ UNCHANGED txn
             /\ pc' = [pc EXCEPT ![r] = "record"]
             /\ UNCHANGED conn
     ELSE /\ StatementFails(r, "employee upsert", StorageError)
          /\ UNCHANGED employees
  /\ last' = NoExchange
  /\ UNCHANGED <<attendance_records, id_seq, req, stats, checked_out, process,
                 boot>>

\* the attendance upsert on the client of r, RETURNING id; nextval is drawn
\* before the conflict is looked for, on both arms
AttRecord(r, ok) ==
  /\ pc[r] = "record"
  /\ ~ RecBlocked(r, AttendanceKey(req[r].body))
  /\ IF ok
     THEN LET b == req[r].body
              newid == id_seq + 1
              before == RecView(r)
              after == UpsertRecord(before, newid, b.emp_id, b.emp_name,
                                    b.attendance_type, b.date, StmtTime(r))
              returned == ReturningId(before, after, newid, b.emp_id,
                            b.emp_name, b.attendance_type, b.date)
          IN /\ id_seq' = newid
             /\ IF /\ InsertsRecord(before, b.emp_id, b.emp_name,
                                     b.attendance_type, b.date)
                   /\ ~ ForeignKeyOk(EmpView(r), b.emp_id)
                THEN /\ StatementFails(r, "record upsert", ForeignKeyError)
                     /\ UNCHANGED attendance_records
                ELSE /\ IF InTx(r)
                        THEN /\ txn' = [txn EXCEPT
                                  ![r].recAdd = after \ attendance_records,
                                  ![r].recDel = attendance_records \ after,
                                  ![r].recLocks = {AttendanceKey(b)},
                                  ![r].idLocks =
                                    {x.id : x \in before} \cap {returned},
                                  ![r].id = returned]
                             /\ UNCHANGED attendance_records
                        ELSE /\ attendance_records' = after
                             /\ txn' = [txn EXCEPT ![r].id = returned]
                     /\ pc' = [pc EXCEPT ![r] = "commit"]
                     /\ UNCHANGED conn
     ELSE /\ StatementFails(r, "record upsert", StorageError)
          /\ UNCHANGED <<attendance_records, id_seq>>
  /\ last' = NoExchange
  /\ UNCHANGED <<employees, req, stats, checked_out, process, boot>>

\* COMMIT makes the rows the transaction wrote the committed rows
CommitEmployees(r) == (employees \ txn[r].empDel) \cup txn[r].empAdd
CommitRecords(r) == (attendance_records \ txn[r].recDel) \cup txn[r].recAdd

\* await client.query('COMMIT') in the storage: the rows are committed and
\* the locks given up while the handler still holds the client. A COMMIT
\* that fails has ended the transaction without its writes, and the error is
\* thrown into the catch block.
AttCommit(r, ok) ==
  /\ pc[r] = "commit"
  /\ IF ok
     THEN /\ employees' = CommitEmployees(r)
          /\ attendance_records' = CommitRecords(r)
          /\ txn' = [txn EXCEPT ![r] =
               [Settled("", "", Tables(CommitEmployees(r), CommitRecords(r)))
                  EXCEPT !.id = txn[r].id]]
          /\ pc' = [pc EXCEPT ![r] = "resultCommit"]
     ELSE /\ txn' = [txn EXCEPT ![r] = [NoTxn EXCEPT !.err = StorageError,
                                                  !.failedAt = "COMMIT"]]
          /\ pc' = [pc EXCEPT ![r] = "rollback"]
          /\ UNCHANGED <<employees, attendance_records>>
  /\ conn' = [conn EXCEPT ![r] = "idle"]
  /\ last' = NoExchange
  /\ UNCHANGED <<id_seq, req, stats, checked_out, process, boot>>

\* the handler goes on from await client.query('COMMIT'): res.json({message,
\* id: result.rows[0].id, timestamp}); finally { client.release() }
AttAnswers(r) ==
  /\ pc[r] = "resultCommit"
  /\ Answers(r, <<Stamped(Saying("Attendance record added successfully",
                            Response(200, "", txn[r].id, "")))>>)
  /\ conn' = [conn EXCEPT ![r] = "none"]
  /\ checked_out' = checked_out - 1
  /\ UNCHANGED <<employees, attendance_records, id_seq, stats, process, boot>>

\* catch (err): await client.query('ROLLBACK') in the storage. A
\* transaction whose ROLLBACK did not get through has either been ended by
\* the server already (the session was closed) or is still open, with its
\* row locks.
AttRollback(r, ok, ended) ==
  /\ pc[r] = "rollback"
  /\ ok => ended
  /\ ~ OpenTx(r) => ended
  /\ LET thrown == IF ok THEN "" ELSE StorageError
     IN IF ended
        THEN /\ conn' = [conn EXCEPT ![r] = "idle"]
             /\ txn' = [txn EXCEPT ![r] =
                  [Settled(txn[r].err, txn[r].failedAt, Committed)
                     EXCEPT !.thrown = thrown]]
        ELSE /\ txn' = [txn EXCEPT ![r].thrown = thrown,
                                   ![r].before = Committed,
                                   ![r].after = Committed, ![r].at = now]
             /\ UNCHANGED conn
  /\ pc' = [pc EXCEPT ![r] = "resultRollback"]
  /\ last' = NoExchange
  /\ UNCHANGED <<employees, attendance_records, id_seq, req, stats,
                 checked_out, process, boot>>

\* the handler goes on from await client.query('ROLLBACK'):
\* res.status(500).json({error: err.message, timestamp}); a ROLLBACK that
\* failed throws out of the catch block instead, and the promise of the
\* handler is rejected. finally { client.release() } runs on both paths: a
\* client whose transaction is still open goes back to the pool with it.
AttCaught(r, outcome) ==
  /\ pc[r] = "resultRollback"
  /\ txn[r].thrown = "" => outcome = "ignored"
  /\ last' = Exchange(req[r],
       IF txn[r].thrown = "" THEN Caught(r) ELSE Rejected(outcome),
       txn[r].failedAt, txn[r].before, txn[r].after, txn[r].at)
  /\ IF outcome = "exit"
     THEN Exits(r)
     ELSE /\ IF OpenTx(r)
             THEN /\ conn' = [conn EXCEPT ![r] = "released"]
                  /\ UNCHANGED txn
             ELSE /\ conn' = [conn EXCEPT ![r] = "none"]
                  /\ txn' = [txn EXCEPT ![r] = NoTxn]
          /\ checked_out' = checked_out - 1
          /\ Ends(r)
          /\ UNCHANGED <<stats, process>>
  /\ UNCHANGED <<employees, attendance_records, id_seq, boot>>

\* the transaction a released client left open ends: the server closes the
\* session, or the next user of the client rolls it back
SessionEnds(r) ==
  /\ conn[r] = "released"
  /\ conn' = [conn EXCEPT ![r] = "none"]
  /\ txn' = [txn EXCEPT ![r] = NoTxn]
  /\ last' = NoExchange
  /\ UNCHANGED <<employees, attendance_records, id_seq, pc, req, stats,
                 checked_out, process, boot>>

\* ------------------------------------------------------------- GET /stats
StatsRequest == [route |-> "GET /stats"]

\* a query of the handler fails: the error is thrown into catch (err)
StatsFails(r) ==
  /\ txn' = [txn EXCEPT ![r] = Settled(StorageError, "query", Committed)]
  /\ pc' = [pc EXCEPT ![r] = "resultStats"]
  /\ req' = [req EXCEPT ![r] = StatsRequest]
  /\ last' = NoExchange
  /\ UNCHANGED stats

\* a query of the handler has set its field of stats
StatsProceeds(r, next, st) ==
  /\ stats' = [stats EXCEPT ![r] = st]
  /\ pc' = [pc EXCEPT ![r] = next]
  /\ req' = [req EXCEPT ![r] = StatsRequest]
  /\ last' = NoExchange
  /\ UNCHANGED txn

\* stats.totalEmployees = parseInt(SELECT COUNT(*) FROM employees)
StatsTotalEmployees(r, ok) ==
  /\ Arrives(r)
  /\ IF ok
     THEN StatsProceeds(r, "totalRecords",
            [stats[r] EXCEPT !.totalEmployees = parseInt(CountRows(employees))])
     ELSE StatsFails(r)
  /\ UNCHANGED <<employees, attendance_records, id_seq, conn, checked_out,
                 process, boot>>

\* stats.totalRecords = parseInt(SELECT COUNT(*) FROM attendance_records)
StatsTotalRecords(r, ok) ==
  /\ pc[r] = "totalRecords"
  /\ IF ok
     THEN StatsProceeds(r, "wfoRecords",
            [stats[r] EXCEPT
               !.totalRecords = parseInt(CountRows(attendance_records)),
               !.reads = @ \cup {attendance_records}])
     ELSE StatsFails(r)
  /\ UNCHANGED <<employees, attendance_records, id_seq, conn, checked_out,
                 process, boot>>

\* stats.wfoRecords = parseInt(SELECT COUNT(*) ... WHERE attendance_type =
\* 'WFO')
StatsWfoRecords(r, ok) ==
  /\ pc[r] = "wfoRecords"
  /\ IF ok
     THEN StatsProceeds(r, "wfhRecords",
            [stats[r] EXCEPT
               !.wfoRecords =
                 parseInt(CountRows(OfType(attendance_records, "WFO"))),
               !.reads = @ \cup {attendance_records}])
     ELSE StatsFails(r)
  /\ UNCHANGED <<employees, attendance_records, id_seq, conn, checked_out,
                 process, boot>>

\* stats.wfhRecords = parseInt(SELECT COUNT(*) ... WHERE attendance_type =
\* 'WFH')
StatsWfhRecords(r, ok) ==
  /\ pc[r] = "wfhRecords"
  /\ IF ok
     THEN StatsProceeds(r, "attendanceByType",
            [stats[r] EXCEPT
               !.wfhRecords =
                 parseInt(CountRows(OfType(attendance_records, "WFH"))),
               !.reads = @ \cup {attendance_records}])
     ELSE StatsFails(r)
  /\ UNCHANGED <<employees, attendance_records, id_seq, conn, checked_out,
                 process, boot>>

\* the grouping query in the storage: stats.attendanceByType is its rows, in
\* the order the storage returned them
StatsAttendanceByType(r, rows, ok) ==
  /\ pc[r] = "attendanceByType"
  /\ IF ok
     THEN /\ rows \in OrderByCountDesc(GroupByType(attendance_records))
          /\ stats' = [stats EXCEPT
               ![r].attendanceByType = rows,
               ![r].reads = @ \cup {attendance_records}]
          /\ txn' = [txn EXCEPT ![r] = Settled("", "", Committed)]
          /\ pc' = [pc EXCEPT ![r] = "resultStats"]
          /\ last' = NoExchange
          /\ UNCHANGED req
     ELSE StatsFails(r)
  /\ UNCHANGED <<employees, attendance_records, id_seq, conn, checked_out,
                 process, boot>>

\* the handler goes on from its last query: res.json({...stats, timestamp}),
\* or, from a query that failed, the catch block
StatsAnswers(r) ==
  /\ pc[r] = "resultStats"
  /\ last' = StatsExchange(StatsRequest,
       IF txn[r].err = "" THEN <<Stamped(StatsResponse(stats[r]))>>
       ELSE Caught(r),
       txn[r].failedAt, txn[r].before, txn[r].after, txn[r].at,
       stats[r].reads)
  /\ stats' = [stats EXCEPT ![r] = NoStats]
  /\ txn' = [txn EXCEPT ![r] = NoTxn]
  /\ Ends(r)
  /\ UNCHANGED <<employees, attendance_records, id_seq, conn, checked_out,
                 process, boot>>

\* ------------------------------------------------------------- the collation
NamesInOrder == <<"Alice", "Bob">>
EmpIdsInOrder == <<"E1", "E2">>
DatesInOrder == <<"2024-01-09", "2024-01-10", "2024-01-11">>
Rank(v, order) == CHOOSE i \in DOMAIN order : order[i] = v

\* ORDER BY: every order of the rows in which no row comes after one it must
\* precede; rows the clause does not order come in the order the storage
\* happens to return them, whichever it is
OrderBy(rows, notAfter) ==
  {s \in [1..Cardinality(rows) -> rows] :
     /\ \A i, j \in DOMAIN s : i # j => s[i] # s[j]
     /\ \A i, j \in DOMAIN s : i < j => <<s[i], s[j]>> \in notAfter}

\* ORDER BY name
ByName(rows) ==
  {p \in rows \X rows :
     Rank(p[1].name, NamesInOrder) <= Rank(p[2].name, NamesInOrder)}

\* ORDER BY date DESC
ByDateDesc(rows) ==
  {p \in rows \X rows :
     Rank(p[1].date, DatesInOrder) >= Rank(p[2].date, DatesInOrder)}

\* ORDER BY date DESC, emp_id
ByDateDescEmpId(rows) ==
  {p \in rows \X rows :
     \/ Rank(p[1].date, DatesInOrder) > Rank(p[2].date, DatesInOrder)
     \/ /\ p[1].date = p[2].date
        /\ Rank(p[1].emp_id, EmpIdsInOrder) <= Rank(p[2].emp_id, EmpIdsInOrder)}

\* SELECT * FROM attendance_records WHERE emp_id = $1
OfEmployee(recs, e) == {x \in recs : x.emp_id = e}

\* WHERE 1=1 [AND date >= $n] [AND date <= $n] [AND attendance_type = $n]
Filtered(recs, q) ==
  {x \in recs :
     /\ Falsy(q.start_date)
          \/ Rank(x.date, DatesInOrder) >= Rank(q.start_date, DatesInOrder)
     /\ Falsy(q.end_date)
          \/ Rank(x.date, DatesInOrder) <= Rank(q.end_date, DatesInOrder)
     /\ Falsy(q.attendance_type) \/ x.attendance_type = q.attendance_type}

\* WHERE emp_id = $1 AND date BETWEEN $2 AND $3
InRange(recs, e, from, to) ==
  {x \in OfEmployee(recs, e) :
     /\ Rank(from, DatesInOrder) <= Rank(x.date, DatesInOrder)
     /\ Rank(x.date, DatesInOrder) <= Rank(to, DatesInOrder)}

\* ------------------------------------------------------------- GET /employees
\* a SELECT of await pool.query(...) in the storage; rows is result.rows as
\* the storage returned them, one of the orders the ORDER BY clause admits
Selects(r, request, rows, orders, ok, at) ==
  /\ Arrives(r)
  /\ IF ok
     THEN /\ rows \in orders
          /\ txn' = [txn EXCEPT ![r] =
               [Settled("", "", Committed) EXCEPT !.rows = rows]]
     ELSE txn' = [txn EXCEPT ![r] = Settled(StorageError, "query", Committed)]
  /\ req' = [req EXCEPT ![r] = request]
  /\ pc' = [pc EXCEPT ![r] = at]
  /\ last' = NoExchange
  /\ UNCHANGED <<employees, attendance_records, id_seq, conn, stats,
                 checked_out, process, boot>>

\* the handler goes on from await pool.query(...): res.json(result.rows), or
\* the catch block
AnswersRows(r, at) ==
  /\ pc[r] = at
  /\ Answers(r, <<RowsResponse(txn[r].rows)>>)
  /\ UNCHANGED <<employees, attendance_records, id_seq, conn, stats,
                 checked_out, process, boot>>

GetEmployees(r, rows, ok) ==
  Selects(r, [route |-> "GET /employees"], rows,
          OrderBy(employees, ByName(employees)), ok, "resultGetEmployees")

GetEmployeesAnswers(r) == AnswersRows(r, "resultGetEmployees")

\* ------------------------------------------------------------- GET /attendance/:emp_id
GetAttendanceOf(r, e, rows, ok) ==
  Selects(r, [route |-> "GET /attendance/:emp_id", emp_id |-> e], rows,
          OrderBy(OfEmployee(attendance_records, e),
                  ByDateDesc(OfEmployee(attendance_records, e))),
          ok, "resultGetAttendanceOf")

GetAttendanceOfAnswers(r) == AnswersRows(r, "resultGetAttendanceOf")

\* ------------------------------------------------------------- GET /attendance
GetAttendance(r, q, rows, ok) ==
  Selects(r, [route |-> "GET /attendance", query |-> q], rows,
          OrderBy(Filtered(attendance_records, q),
                  ByDateDescEmpId(Filtered(attendance_records, q))),
          ok, "resultGetAttendance")

GetAttendanceAnswers(r) == AnswersRows(r, "resultGetAttendance")

\* ------------------------------------------------------------- GET /attendance-range
GetAttendanceRange(r, e, range, rows, ok) ==
  Selects(r, [route |-> "GET /attendance-range/:emp_id/:start_date/:end_date",
              emp_id |-> e, start_date |-> range[1], end_date |-> range[2]],
          rows,
          OrderBy(InRange(attendance_records, e, range[1], range[2]),
                  ByDateDesc(InRange(attendance_records, e, range[1],
                                     range[2]))),
          ok, "resultGetAttendanceRange")

GetAttendanceRangeAnswers(r) == AnswersRows(r, "resultGetAttendanceRange")

\* ------------------------------------------------------------- CORS
\* the strings of allowedOrigins (process.env.FRONTEND_URL is not set)
AllowedOrigins ==
  {"http://localhost:5173", "http://localhost:3000",
   "https://front-end-server-mz4as6cxr-yashwanths-projects-7a956bf7.vercel.app"}

\* /https:\/\/.*\.vercel\.app$/ over Origins
MatchesVercel(o) == o \in {"https://preview.vercel.app"}

\* the origin callback of cors() in server.js: no Origin header, an exact
\* match or a match of the pattern
OriginAllowed(o) == o = Absent \/ o \in AllowedOrigins \/ MatchesVercel(o)

\* `The CORS policy for this site does not allow access from the specified
\* Origin: ${origin}`, over the origins of Origins that are not allowed
CorsMessage(o) ==
  CASE o = "https://elsewhere.example" ->
         "The CORS policy for this site does not allow access from the specified Origin: https://elsewhere.example"
    [] o = "http://localhost:8080" ->
         "The CORS policy for this site does not allow access from the specified Origin: http://localhost:8080"

\* app.use(cors({origin: ...})) before the routes: for an origin that is
\* not allowed the callback gets new Error(msg), the route does not run, and
\* the error-handling middleware answers 403 ('CORS policy' is in the message)
Refuses(r, o, route) ==
  /\ Arrives(r)
  /\ ~ OriginAllowed(o)
  /\ Ends(r)
  /\ last' = Exchange([route |-> route, origin |-> o],
               <<Stamped([status |-> 403, error |-> "CORS Error", id |-> 0,
                          emp_id |-> "", message |-> CorsMessage(o),
                          origin |-> o])>>,
               "", Committed, Committed, now)
  /\ UNCHANGED <<employees, attendance_records, id_seq, conn, txn, stats,
                 checked_out, process, boot>>

\* ------------------------------------------------------------- body parser
\* the errors express.json() hands to next(err): status 400 for a body that
\* is not JSON, with the message of JSON.parse, which since Node 19 quotes
\* the body (here the body {"a":CORS policy}); status 413 for a body over the
\* size limit
ParserErrors ==
  {[status |-> 400, message |-> "Unexpected token } in JSON at position 1"],
   [status |-> 400,
    message |-> "Unexpected token 'C', \"{\"a\":CORS policy}\" is not valid JSON"],
   [status |-> 413, message |-> "request entity too large"]}

\* err.message.includes('CORS policy'), over the messages of ParserErrors
NamesCorsPolicy(message) ==
  message = "Unexpected token 'C', \"{\"a\":CORS policy}\" is not valid JSON"

\* app.use(express.json()) after cors(): the parser refuses the body of a
\* request with Origin header o, and the route does not run. The
\* error-handling middleware never looks at err.status: it answers 403
\* 'CORS Error' with err.message and req.headers.origin (which JSON drops
\* when there is none) when the message includes 'CORS policy', and 500
\* 'Internal server error' otherwise
BodyRefused(r, o, route, err) ==
  /\ Arrives(r)
  /\ OriginAllowed(o)
  /\ err \in ParserErrors
  /\ Ends(r)
  /\ last' = Exchange(
       [route |-> route, parser |-> err.status, message |-> err.message],
       IF NamesCorsPolicy(err.message)
       THEN <<Stamped([status |-> 403, error |-> "CORS Error", id |-> 0,
                       emp_id |-> "", message |-> err.message]
                      @@ (IF o = Absent THEN <<>> ELSE [origin |-> o]))>>
       ELSE Rejected("500"),
       "", Committed, Committed, now)
  /\ UNCHANGED <<employees, attendance_records, id_seq, conn, txn, stats,
                 checked_out, process, boot>>

\* ------------------------------------------------------------- server.js
\* a step of server.js alone
Alone(A) == A /\ PartIdle /\ UNCHANGED <<now, refused>>

\* the step the handler of request r takes from where it stands, the bodies
\* of the requests drawn from these sets
Serves(r, employeeBodies, attendanceBodies) ==
  \/ /\ pc[r] = "idle"
     /\ \E b \in employeeBodies, ok \in BOOLEAN : Alone(PostEmployees(r, b, ok))
  \/ /\ pc[r] = "resultPostEmployees"
     /\ Alone(PostEmployeesAnswers(r))
  \/ /\ pc[r] = "idle"
     /\ \E id \in DeleteIds, ok \in BOOLEAN : Alone(DeleteAttendance(r, id, ok))
  \/ /\ pc[r] = "resultDelete"
     /\ Alone(DeleteAttendanceAnswers(r))
  \/ /\ pc[r] = "idle"
     /\ \E b \in attendanceBodies, connected \in BOOLEAN,
           outcome \in RejectedOutcomes :
          Alone(AttStart(r, b, connected, outcome))
  \/ /\ pc[r] = "begin"
     /\ \E ok \in BOOLEAN : Alone(AttBegin(r, ok))
  \/ /\ pc[r] = "employee"
     /\ \E ok \in BOOLEAN : Alone(AttEmployee(r, ok))
  \/ /\ pc[r] = "record"
     /\ \E ok \in BOOLEAN : Alone(AttRecord(r, ok))
  \/ /\ pc[r] = "commit"
     /\ \E ok \in BOOLEAN : Alone(AttCommit(r, ok))
  \/ /\ pc[r] = "resultCommit"
     /\ Alone(AttAnswers(r))
  \/ /\ pc[r] = "rollback"
     /\ \E ok \in BOOLEAN, ended \in BOOLEAN : Alone(AttRollback(r, ok, ended))
  \/ /\ pc[r] = "resultRollback"
     /\ \E outcome \in RejectedOutcomes : Alone(AttCaught(r, outcome))
  \/ /\ conn[r] = "released"
     /\ Alone(SessionEnds(r))
  \/ /\ pc[r] = "idle"
     /\ \E ok \in BOOLEAN : Alone(StatsTotalEmployees(r, ok))
  \/ /\ pc[r] = "totalRecords"
     /\ \E ok \in BOOLEAN : Alone(StatsTotalRecords(r, ok))
  \/ /\ pc[r] = "wfoRecords"
     /\ \E ok \in BOOLEAN : Alone(StatsWfoRecords(r, ok))
  \/ /\ pc[r] = "wfhRecords"
     /\ \E ok \in BOOLEAN : Alone(StatsWfhRecords(r, ok))
  \/ /\ pc[r] = "attendanceByType"
     /\ \E ok \in BOOLEAN,
           rows \in OrderByCountDesc(GroupByType(attendance_records)) :
          Alone(StatsAttendanceByType(r, rows, ok))
  \/ /\ pc[r] = "resultStats"
     /\ Alone(StatsAnswers(r))

\* server.js serves requests that its CORS policy lets through
Next ==
  \/ Tick
  \/ Alone(PoolError)
  \/ \E r \in Reqs : Serves(r, EmployeeBodies, AttendanceBodies)

Spec == Init /\ [][Next]_vars

\* ------------------------------------------------------------- startup
\* the statements of initializeDatabase_table, in order
BootStatements == <<"employees", "attendance_records",
                    "idx_attendance_emp_date", "idx_attendance_date">>

\* the server starts: initializeDatabase_table() has been called and is not
\* awaited, so requests are served while it runs
InitBoot ==
  /\ \E s \in StoredAtStart : ServerStarts(s, "connect")
  /\ now = 1
  /\ NoPart

\* const client = await pool.connect(), outside the try block: when it
\* rejects, the promise of initializeDatabase_table is rejected and logged
BootConnect ==
  /\ process = "running"
  /\ boot = "connect"
  /\ \E connected \in BOOLEAN :
       IF connected
       THEN boot' = BootStatements[1] /\ checked_out' = checked_out + 1
       ELSE boot' = "failed" /\ UNCHANGED checked_out
  /\ last' = NoExchange
  /\ UNCHANGED <<employees, attendance_records, id_seq, now, pc, req, conn, txn,
                 stats, process, refused>>
  /\ PartIdle

\* await client.query(CREATE TABLE IF NOT EXISTS ... / CREATE INDEX IF NOT
\* EXISTS ...): the rows stored stay; a statement that fails goes to the
\* catch block, which logs and rethrows
BootQuery ==
  /\ process = "running"
  /\ \E i \in DOMAIN BootStatements, ok \in BOOLEAN :
       /\ boot = BootStatements[i]
       /\ boot' = IF ~ ok THEN "rethrow"
                  ELSE IF i < Len(BootStatements) THEN BootStatements[i + 1]
                  ELSE "release"
  /\ last' = NoExchange
  /\ UNCHANGED <<employees, attendance_records, id_seq, now, pc, req, conn, txn,
                 stats, checked_out, process, refused>>
  /\ PartIdle

\* finally { client.release() }
BootRelease ==
  /\ process = "running"
  /\ boot \in {"release", "rethrow"}
  /\ checked_out' = checked_out - 1
  /\ boot' = IF boot = "release" THEN "done" ELSE "failed"
  /\ last' = NoExchange
  /\ UNCHANGED <<employees, attendance_records, id_seq, now, pc, req, conn, txn,
                 stats, process, refused>>
  /\ PartIdle

\* the bodies of the requests served while the server starts
BootEmployeeBodies ==
  {BaseEmployeeBody, [BaseEmployeeBody EXCEPT !.name = Absent]}
BootAttendanceBodies ==
  {BaseAttendanceBody, [BaseAttendanceBody EXCEPT !.date = Absent]}

NextBoot ==
  \/ Tick
  \/ Alone(PoolError)
  \/ \E r \in Reqs : Serves(r, BootEmployeeBodies, BootAttendanceBodies)
  \/ BootConnect
  \/ BootQuery
  \/ BootRelease

SpecBoot == InitBoot /\ [][NextBoot]_vars

\* ------------------------------------------------------------- part_000: sessions
PartCommitted == Tables(part_employees, part_attendance_records)

PartInTx(r) == part_conn[r] = "intx"
PartOpenTx(r) == part_conn[r] \in {"intx", "aborted", "released"}

\* what a statement of r sees: the committed rows and its own writes
PartEmpView(r) == (part_employees \ part_txn[r].empDel) \cup part_txn[r].empAdd
PartRecView(r) == (part_attendance_records \ part_txn[r].recDel) \cup part_txn[r].recAdd

\* CURRENT_TIMESTAMP for a statement of r
PartStmtTime(r) == IF PartInTx(r) THEN part_txn[r].start ELSE now

\* a statement of r on the employee row with this key waits for another
\* open transaction that wrote it
PartEmpBlocked(r, k) == \E o \in Reqs \ {r} : PartOpenTx(o) /\ k \in part_txn[o].empLocks

PartRecBlocked(r, k) == \E o \in Reqs \ {r} : PartOpenTx(o) /\ k \in part_txn[o].recLocks

\* a DELETE sees committed rows only, and waits for a transaction that
\* updated the row it is to delete
PartDeleteBlocked(r, id) == \E o \in Reqs \ {r} : PartOpenTx(o) /\ id \in part_txn[o].idLocks

\* requests are numbered in the order they arrive, at a process that runs
PartArrives(r) ==
  /\ part_process = "running"
  /\ part_pc[r] = "idle"
  /\ \A o \in Reqs : o < r => part_pc[o] # "idle"

\* the responses to the rejection when Express hands it to next(err):
\* part_000 has no error-handling middleware, and the default handler of
\* Express answers 500 with a page that is not JSON
PartRejected(outcome) ==
  IF outcome \in {"500", "503"}
  THEN <<Response(500, "", 0, "") @@ [html |-> "<pre>Error</pre>"]>>
  ELSE <<>>

\* the handler of r has returned
PartEnds(r) == part_pc' = [part_pc EXCEPT ![r] = "done"] /\ part_req' = [part_req EXCEPT ![r] = NoReq]

\* the storage has settled the call that the handler of r awaits: the result
\* or the error is on its way to the handler, which goes on from its await
\* in a later turn of the event loop
PartSettled(message, call, after) ==
  [NoTxn EXCEPT !.err = message, !.failedAt = call, !.before = PartCommitted,
                !.after = after, !.at = now]

\* the response of the catch block of a handler: 500 with err.message
PartCaught(r) == <<Response(500, part_txn[r].err, 0, "")>>

\* the handler of r goes on from its await to its response: sent is what it
\* sends when the call succeeded, the catch block answers when it failed
PartAnswers(r, sent) ==
  /\ part_last' = Exchange(part_req[r], IF part_txn[r].err = "" THEN sent ELSE PartCaught(r),
                      part_txn[r].failedAt, part_txn[r].before, part_txn[r].after, part_txn[r].at)
  /\ part_txn' = [part_txn EXCEPT ![r] = NoTxn]
  /\ PartEnds(r)

\* the process ends with the handlers of these requests ended: the other
\* requests in flight are never answered, the pool is gone, and the server
\* ends the sessions of its clients, rolling back what they had not
\* committed; what the storage has committed stays
PartProcessEnds(ended) ==
  /\ part_process' = "exited"
  /\ part_pc' = [o \in Reqs |-> IF o \in ended THEN "done"
                           ELSE IF part_pc[o] \in {"idle", "done"} THEN part_pc[o]
                           ELSE "killed"]
  /\ part_req' = [o \in Reqs |-> NoReq]
  /\ part_conn' = [o \in Reqs |-> "none"]
  /\ part_txn' = [o \in Reqs |-> NoTxn]
  /\ part_stats' = [o \in Reqs |-> NoStats]
  /\ part_checked_out' = 0

\* Node ends the process when the promise of the handler of r is rejected
\* and nothing handles the rejection
PartExits(r) == PartProcessEnds({r})

\* the pool reports an error of an idle client: part_000 registers no
\* listener of 'error' on its pool, so emitting the event throws, and the
\* uncaught exception ends the process
PartPoolError ==
  /\ part_process = "running"
  /\ PartProcessEnds({})
  /\ part_last' = NoExchange
  /\ UNCHANGED <<part_employees, part_attendance_records, part_id_seq, part_boot>>

\* ------------------------------------------------------------- part_000: POST /employees
\* the validation, and the upsert of await pool.query(...) in the storage
PartPostEmployees(r, b, ok) ==
  /\ PartArrives(r)
  /\ LET request == [route |-> "POST /employees", body |-> b]
         after == UpsertEmployee(part_employees, b.emp_id, b.name, now)
     IN IF EmployeeBodyRejected(b)
        THEN /\ ok
             /\ PartEnds(r)
             /\ part_last' = Exchange(request,
                  <<Response(400, "Employee ID and name are required", 0, "")>>,
                  "", PartCommitted, PartCommitted, now)
             /\ UNCHANGED <<part_employees, part_txn>>
        ELSE /\ ~ PartEmpBlocked(r, EmployeeKey(b))
             /\ IF ok
                THEN /\ part_employees' = after
                     /\ part_txn' = [part_txn EXCEPT ![r] =
                          PartSettled("", "", Tables(after, part_attendance_records))]
                ELSE /\ part_txn' = [part_txn EXCEPT ![r] =
                          PartSettled(StorageError, "query", PartCommitted)]
                     /\ UNCHANGED part_employees
             /\ part_req' = [part_req EXCEPT ![r] = request]
             /\ part_pc' = [part_pc EXCEPT ![r] = "resultPostEmployees"]
             /\ part_last' = NoExchange
  /\ UNCHANGED <<part_attendance_records, part_id_seq, part_conn, part_stats, part_checked_out,
                 part_process, part_boot>>

\* the handler goes on from await pool.query(...): res.json({message,
\* emp_id}), or the catch block
PartPostEmployeesAnswers(r) ==
  /\ part_pc[r] = "resultPostEmployees"
  /\ PartAnswers(r, <<Saying("Employee saved successfully",
                            Response(200, "", 0, part_req[r].body.emp_id))>>)
  /\ UNCHANGED <<part_employees, part_attendance_records, part_id_seq, part_conn, part_stats,
                 part_checked_out, part_process, part_boot>>

\* ------------------------------------------------------------- part_000: DELETE /attendance/:id
\* the DELETE of await pool.query(...) in the storage
PartDeleteAttendance(r, id, ok) ==
  /\ PartArrives(r)
  /\ ~ PartDeleteBlocked(r, id)
  /\ LET after == DeleteById(part_attendance_records, id)
     IN IF ok
        THEN /\ part_attendance_records' = after
             /\ part_txn' = [part_txn EXCEPT ![r] =
                  [PartSettled("", "", Tables(part_employees, after)) EXCEPT
                     !.rowCount = RowCount(part_attendance_records, id)]]
        ELSE /\ part_txn' = [part_txn EXCEPT ![r] =
                  PartSettled(StorageError, "query", PartCommitted)]
             /\ UNCHANGED part_attendance_records
  /\ part_req' = [part_req EXCEPT ![r] = [route |-> "DELETE /attendance/:id", id |-> id]]
  /\ part_pc' = [part_pc EXCEPT ![r] = "resultDelete"]
  /\ part_last' = NoExchange
  /\ UNCHANGED <<part_employees, part_id_seq, part_conn, part_stats, part_checked_out, part_process, part_boot>>

\* the handler, were it to answer 200 whatever the row count
PartDeleteAttendanceAnswersAlways200(r) ==
  /\ part_pc[r] = "resultDelete"
  /\ PartAnswers(r, <<Saying("Record deleted successfully",
                                 Response(200, "", 0, ""))>>)
  /\ UNCHANGED <<part_employees, part_attendance_records, part_id_seq, part_conn, part_stats,
                 part_checked_out, part_process, part_boot>>

\* the handler goes on from await pool.query(...): 404 when
\* result.rowCount === 0, else res.json({message}), or the catch
\* block
PartDeleteAttendanceAnswers(r) ==
  /\ part_pc[r] = "resultDelete"
  /\ PartAnswers(r, IF part_txn[r].rowCount = 0
                THEN <<Response(404, "Record not found", 0, "")>>
                ELSE <<Saying("Record deleted successfully",
                                 Response(200, "", 0, ""))>>)
  /\ UNCHANGED <<part_employees, part_attendance_records, part_id_seq, part_conn, part_stats,
                 part_checked_out, part_process, part_boot>>

\* ------------------------------------------------------------- part_000: POST /attendance
\* The handler up to its first await: the validation, and
\* const client = await pool.connect(), outside the try block. A connect
\* that rejects rejects the promise of the handler.
PartAttStart(r, b, connected, outcome) ==
  /\ PartArrives(r)
  /\ connected => outcome = "ignored"
  /\ LET request == [route |-> "POST /attendance", body |-> b]
     IN IF AttendanceBodyRejected(b)
        THEN /\ connected
             /\ PartEnds(r)
             /\ part_last' = Exchange(request,
                  <<Response(400, "All fields are required", 0, "")>>,
                  "", PartCommitted, PartCommitted, now)
             /\ UNCHANGED <<part_conn, part_txn, part_stats, part_checked_out, part_process>>
        ELSE IF ~ connected
        THEN /\ part_last' = Exchange(request, PartRejected(outcome), "pool.connect",
                                 PartCommitted, PartCommitted, now)
             /\ IF outcome = "exit"
                THEN PartExits(r)
                ELSE /\ PartEnds(r)
                     /\ UNCHANGED <<part_conn, part_txn, part_stats, part_checked_out, part_process>>
        ELSE /\ part_req' = [part_req EXCEPT ![r] = request]
             /\ part_pc' = [part_pc EXCEPT ![r] = "begin"]
             /\ part_conn' = [part_conn EXCEPT ![r] = "idle"]
             /\ part_checked_out' = part_checked_out + 1
             /\ part_last' = NoExchange
             /\ UNCHANGED <<part_txn, part_stats, part_process>>
  /\ UNCHANGED <<part_employees, part_attendance_records, part_id_seq, part_boot>>

\* a statement of r fails: the error is thrown into the catch block, and an
\* open transaction is aborted (its locks stay until ROLLBACK)
PartStatementFails(r, statement, message) ==
  /\ part_txn' = [part_txn EXCEPT ![r].err = message, ![r].failedAt = statement]
  /\ part_conn' = [part_conn EXCEPT ![r] = IF PartInTx(r) THEN "aborted" ELSE @]
  /\ part_pc' = [part_pc EXCEPT ![r] = "rollback"]

\* await client.query('BEGIN'), which reads the clock
PartAttBegin(r, ok) ==
  /\ part_pc[r] = "begin"
  /\ IF ok
     THEN /\ part_conn' = [part_conn EXCEPT ![r] = "intx"]
          /\ part_txn' = [part_txn EXCEPT ![r].start = now]
          /\ part_pc' = [part_pc EXCEPT ![r] = "employee"]
     ELSE PartStatementFails(r, "BEGIN", StorageError)
  /\ part_last' = NoExchange
  /\ UNCHANGED <<part_employees, part_attendance_records, part_id_seq, part_req, part_stats,
                 part_checked_out, part_process, part_boot>>

\* the employee upsert on the client of r
PartAttEmployee(r, ok) ==
  /\ part_pc[r] = "employee"
  /\ ~ PartEmpBlocked(r, EmployeeKey([emp_id |-> part_req[r].body.emp_id,
                                    name |-> part_req[r].body.emp_name]))
  /\ IF ok
     THEN LET after == UpsertEmployee(PartEmpView(r), part_req[r].body.emp_id,
                                      part_req[r].body.emp_name, PartStmtTime(r))
          IN /\ IF PartInTx(r)
                THEN /\ part_txn' = [part_txn EXCEPT
                          ![r].empAdd = after \ part_employees,
                          ![r].empDel = part_employees \ after,
                          ![r].empLocks =
                            {EmployeeKey([emp_id |-> part_req[r].body.emp_id,
                                          name |-> part_req[r].body.emp_name])}]
                     /\ UNCHANGED part_employees
                ELSE /\ part_employees' = after
                     /\ UNCHANGED part_txn
             /\ part_pc' = [part_pc EXCEPT ![r] = "record"]
             /\ UNCHANGED part_conn
     ELSE /\ PartStatementFails(r, "employee upsert", StorageError)
          /\ UNCHANGED part_employees
  /\ part_last' = NoExchange
  /\ UNCHANGED <<part_attendance_records, part_id_seq, part_req, part_stats, part_checked_out, part_process,
                 part_boot>>

\* the attendance upsert on the client of r, RETURNING id; nextval is drawn
\* before the conflict is looked for, on both arms
PartAttRecord(r, ok) ==
  /\ part_pc[r] = "record"
  /\ ~ PartRecBlocked(r, AttendanceKey(part_req[r].body))
  /\ IF ok
     THEN LET b == part_req[r].body
              newid == part_id_seq + 1
              before == PartRecView(r)
              after == UpsertRecord(before, newid, b.emp_id, b.emp_name,
                                    b.attendance_type, b.date, PartStmtTime(r))
              returned == ReturningId(before, after, newid, b.emp_id,
                            b.emp_name, b.attendance_type, b.date)
          IN /\ part_id_seq' = newid
             /\ IF /\ InsertsRecord(before, b.emp_id, b.emp_name,
                                     b.attendance_type, b.date)
                   /\ ~ ForeignKeyOk(PartEmpView(r), b.emp_id)
                THEN /\ PartStatementFails(r, "record upsert", ForeignKeyError)
                     /\ UNCHANGED part_attendance_records
                ELSE /\ IF PartInTx(r)
                        THEN /\ part_txn' = [part_txn EXCEPT
                                  ![r].recAdd = after \ part_attendance_records,
                                  ![r].recDel = part_attendance_records \ after,
                                  ![r].recLocks = {AttendanceKey(b)},
                                  ![r].idLocks =
                                    {x.id : x \in before} \cap {returned},
                                  ![r].id = returned]
                             /\ UNCHANGED part_attendance_records
                        ELSE /\ part_attendance_records' = after
                             /\ part_txn' = [part_txn EXCEPT ![r].id = returned]
                     /\ part_pc' = [part_pc EXCEPT ![r] = "commit"]
                     /\ UNCHANGED part_conn
     ELSE /\ PartStatementFails(r, "record upsert", StorageError)
          /\ UNCHANGED <<part_attendance_records, part_id_seq>>
  /\ part_last' = NoExchange
  /\ UNCHANGED <<part_employees, part_req, part_stats, part_checked_out, part_process, part_boot>>

\* COMMIT makes the rows the transaction wrote the committed rows
PartCommitEmployees(r) == (part_employees \ part_txn[r].empDel) \cup part_txn[r].empAdd
PartCommitRecords(r) == (part_attendance_records \ part_txn[r].recDel) \cup part_txn[r].recAdd

\* await client.query('COMMIT') in the storage: the rows are committed and
\* the locks given up while the handler still holds the client. A COMMIT
\* that fails has ended the transaction without its writes, and the error is
\* thrown into the catch block.
PartAttCommit(r, ok) ==
  /\ part_pc[r] = "commit"
  /\ IF ok
     THEN /\ part_employees' = PartCommitEmployees(r)
          /\ part_attendance_records' = PartCommitRecords(r)
          /\ part_txn' = [part_txn EXCEPT ![r] =
               [PartSettled("", "", Tables(PartCommitEmployees(r), PartCommitRecords(r)))
                  EXCEPT !.id = part_txn[r].id]]
          /\ part_pc' = [part_pc EXCEPT ![r] = "resultCommit"]
     ELSE /\ part_txn' = [part_txn EXCEPT ![r] = [NoTxn EXCEPT !.err = StorageError,
                                                  !.failedAt = "COMMIT"]]
          /\ part_pc' = [part_pc EXCEPT ![r] = "rollback"]
          /\ UNCHANGED <<part_employees, part_attendance_records>>
  /\ part_conn' = [part_conn EXCEPT ![r] = "idle"]
  /\ part_last' = NoExchange
  /\ UNCHANGED <<part_id_seq, part_req, part_stats, part_checked_out, part_process, part_boot>>

\* the handler goes on from await client.query('COMMIT'): res.json({message,
\* id: result.rows[0].id}); finally { client.release() }
PartAttAnswers(r) ==
  /\ part_pc[r] = "resultCommit"
  /\ PartAnswers(r, <<Saying("Attendance record added successfully",
                            Response(200, "", part_txn[r].id, ""))>>)
  /\ part_conn' = [part_conn EXCEPT ![r] = "none"]
  /\ part_checked_out' = part_checked_out - 1
  /\ UNCHANGED <<part_employees, part_attendance_records, part_id_seq, part_stats, part_process, part_boot>>

\* catch (err): await client.query('ROLLBACK') in the storage. A
\* transaction whose ROLLBACK did not get through has either been ended by
\* the server already (the session was closed) or is still open, with its
\* row locks.
PartAttRollback(r, ok, ended) ==
  /\ part_pc[r] = "rollback"
  /\ ok => ended
  /\ ~ PartOpenTx(r) => ended
  /\ LET thrown == IF ok THEN "" ELSE StorageError
     IN IF ended
        THEN /\ part_conn' = [part_conn EXCEPT ![r] = "idle"]
             /\ part_txn' = [part_txn EXCEPT ![r] =
                  [PartSettled(part_txn[r].err, part_txn[r].failedAt, PartCommitted)
                     EXCEPT !.thrown = thrown]]
        ELSE /\ part_txn' = [part_txn EXCEPT ![r].thrown = thrown,
                                   ![r].before = PartCommitted,
                                   ![r].after = PartCommitted, ![r].at = now]
             /\ UNCHANGED part_conn
  /\ part_pc' = [part_pc EXCEPT ![r] = "resultRollback"]
  /\ part_last' = NoExchange
  /\ UNCHANGED <<part_employees, part_attendance_records, part_id_seq, part_req, part_stats,
                 part_checked_out, part_process, part_boot>>

\* the handler goes on from await client.query('ROLLBACK'):
\* res.status(500).json({error: err.message}); a ROLLBACK that
\* failed throws out of the catch block instead, and the promise of the
\* handler is rejected. finally { client.release() } runs on both paths: a
\* client whose transaction is still open goes back to the pool with it.
PartAttCaught(r, outcome) ==
  /\ part_pc[r] = "resultRollback"
  /\ part_txn[r].thrown = "" => outcome = "ignored"
  /\ part_last' = Exchange(part_req[r],
       IF part_txn[r].thrown = "" THEN PartCaught(r) ELSE PartRejected(outcome),
       part_txn[r].failedAt, part_txn[r].before, part_txn[r].after, part_txn[r].at)
  /\ IF outcome = "exit"
     THEN PartExits(r)
     ELSE /\ IF PartOpenTx(r)
             THEN /\ part_conn' = [part_conn EXCEPT ![r] = "released"]
                  /\ UNCHANGED part_txn
             ELSE /\ part_conn' = [part_conn EXCEPT ![r] = "none"]
                  /\ part_txn' = [part_txn EXCEPT ![r] = NoTxn]
          /\ part_checked_out' = part_checked_out - 1
          /\ PartEnds(r)
          /\ UNCHANGED <<part_stats, part_process>>
  /\ UNCHANGED <<part_employees, part_attendance_records, part_id_seq, part_boot>>

\* the transaction a released client left open ends: the server closes the
\* session, or the next user of the client rolls it back
PartSessionEnds(r) ==
  /\ part_conn[r] = "released"
  /\ part_conn' = [part_conn EXCEPT ![r] = "none"]
  /\ part_txn' = [part_txn EXCEPT ![r] = NoTxn]
  /\ part_last' = NoExchange
  /\ UNCHANGED <<part_employees, part_attendance_records, part_id_seq, part_pc, part_req, part_stats,
                 part_checked_out, part_process, part_boot>>

\* ------------------------------------------------------------- part_000: GET /stats
\* a query of the handler fails: the error is thrown into catch (err)
PartStatsFails(r) ==
  /\ part_txn' = [part_txn EXCEPT ![r] = PartSettled(StorageError, "query", PartCommitted)]
  /\ part_pc' = [part_pc EXCEPT ![r] = "resultStats"]
  /\ part_req' = [part_req EXCEPT ![r] = StatsRequest]
  /\ part_last' = NoExchange
  /\ UNCHANGED part_stats

\* a query of the handler has set its field of stats
PartStatsProceeds(r, next, st) ==
  /\ part_stats' = [part_stats EXCEPT ![r] = st]
  /\ part_pc' = [part_pc EXCEPT ![r] = next]
  /\ part_req' = [part_req EXCEPT ![r] = StatsRequest]
  /\ part_last' = NoExchange
  /\ UNCHANGED part_txn

\* stats.totalEmployees = parseInt(SELECT COUNT(*) FROM employees)
PartStatsTotalEmployees(r, ok) ==
  /\ PartArrives(r)
  /\ IF ok
     THEN PartStatsProceeds(r, "totalRecords",
            [part_stats[r] EXCEPT !.totalEmployees = parseInt(CountRows(part_employees))])
     ELSE PartStatsFails(r)
  /\ UNCHANGED <<part_employees, part_attendance_records, part_id_seq, part_conn, part_checked_out,
                 part_process, part_boot>>

\* stats.totalRecords = parseInt(SELECT COUNT(*) FROM attendance_records)
PartStatsTotalRecords(r, ok) ==
  /\ part_pc[r] = "totalRecords"
  /\ IF ok
     THEN PartStatsProceeds(r, "wfoRecords",
            [part_stats[r] EXCEPT
               !.totalRecords = parseInt(CountRows(part_attendance_records)),
               !.reads = @ \cup {part_attendance_records}])
     ELSE PartStatsFails(r)
  /\ UNCHANGED <<part_employees, part_attendance_records, part_id_seq, part_conn, part_checked_out,
                 part_process, part_boot>>

\* stats.wfoRecords = parseInt(SELECT COUNT(*) ... WHERE attendance_type =
\* 'WFO')
PartStatsWfoRecords(r, ok) ==
  /\ part_pc[r] = "wfoRecords"
  /\ IF ok
     THEN PartStatsProceeds(r, "wfhRecords",
            [part_stats[r] EXCEPT
               !.wfoRecords =
                 parseInt(CountRows(OfType(part_attendance_records, "WFO"))),
               !.reads = @ \cup {part_attendance_records}])
     ELSE PartStatsFails(r)
  /\ UNCHANGED <<part_employees, part_attendance_records, part_id_seq, part_conn, part_checked_out,
                 part_process, part_boot>>

\* stats.wfhRecords = parseInt(SELECT COUNT(*) ... WHERE attendance_type =
\* 'WFH')
PartStatsWfhRecords(r, ok) ==
  /\ part_pc[r] = "wfhRecords"
  /\ IF ok
     THEN PartStatsProceeds(r, "attendanceByType",
            [part_stats[r] EXCEPT
               !.wfhRecords =
                 parseInt(CountRows(OfType(part_attendance_records, "WFH"))),
               !.reads = @ \cup {part_attendance_records}])
     ELSE PartStatsFails(r)
  /\ UNCHANGED <<part_employees, part_attendance_records, part_id_seq, part_conn, part_checked_out,
                 part_process, part_boot>>

\* the grouping query in the storage: stats.attendanceByType is its rows, in
\* the order the storage returned them
PartStatsAttendanceByType(r, rows, ok) ==
  /\ part_pc[r] = "attendanceByType"
  /\ IF ok
     THEN /\ rows \in OrderByCountDesc(GroupByType(part_attendance_records))
          /\ part_stats' = [part_stats EXCEPT
               ![r].attendanceByType = rows,
               ![r].reads = @ \cup {part_attendance_records}]
          /\ part_txn' = [part_txn EXCEPT ![r] = PartSettled("", "", PartCommitted)]
          /\ part_pc' = [part_pc EXCEPT ![r] = "resultStats"]
          /\ part_last' = NoExchange
          /\ UNCHANGED part_req
     ELSE PartStatsFails(r)
  /\ UNCHANGED <<part_employees, part_attendance_records, part_id_seq, part_conn, part_checked_out,
                 part_process, part_boot>>

\* the handler goes on from its last query: res.json(stats),
\* or, from a query that failed, the catch block
PartStatsAnswers(r) ==
  /\ part_pc[r] = "resultStats"
  /\ part_last' = StatsExchange(StatsRequest,
       IF part_txn[r].err = "" THEN <<StatsResponse(part_stats[r])>>
       ELSE PartCaught(r),
       part_txn[r].failedAt, part_txn[r].before, part_txn[r].after, part_txn[r].at,
       part_stats[r].reads)
  /\ part_stats' = [part_stats EXCEPT ![r] = NoStats]
  /\ part_txn' = [part_txn EXCEPT ![r] = NoTxn]
  /\ PartEnds(r)
  /\ UNCHANGED <<part_employees, part_attendance_records, part_id_seq, part_conn, part_checked_out,
                 part_process, part_boot>>

\* ------------------------------------------------------------- part_000: GET /employees
\* a SELECT of await pool.query(...) in the storage; rows is result.rows as
\* the storage returned them, one of the orders the ORDER BY clause admits
PartSelects(r, request, rows, orders, ok, at) ==
  /\ PartArrives(r)
  /\ IF ok
     THEN /\ rows \in orders
          /\ part_txn' = [part_txn EXCEPT ![r] =
               [PartSettled("", "", PartCommitted) EXCEPT !.rows = rows]]
     ELSE part_txn' = [part_txn EXCEPT ![r] = PartSettled(StorageError, "query", PartCommitted)]
  /\ part_req' = [part_req EXCEPT ![r] = request]
  /\ part_pc' = [part_pc EXCEPT ![r] = at]
  /\ part_last' = NoExchange
  /\ UNCHANGED <<part_employees, part_attendance_records, part_id_seq, part_conn, part_stats,
                 part_checked_out, part_process, part_boot>>

\* the handler goes on from await pool.query(...): res.json(result.rows), or
\* the catch block
PartAnswersRows(r, at) ==
  /\ part_pc[r] = at
  /\ PartAnswers(r, <<RowsResponse(part_txn[r].rows)>>)
  /\ UNCHANGED <<part_employees, part_attendance_records, part_id_seq, part_conn, part_stats,
                 part_checked_out, part_process, part_boot>>

PartGetEmployees(r, rows, ok) ==
  PartSelects(r, [route |-> "GET /employees"], rows,
          OrderBy(part_employees, ByName(part_employees)), ok, "resultGetEmployees")

PartGetEmployeesAnswers(r) == PartAnswersRows(r, "resultGetEmployees")

\* ------------------------------------------------------------- part_000: GET /attendance/:emp_id
PartGetAttendanceOf(r, e, rows, ok) ==
  PartSelects(r, [route |-> "GET /attendance/:emp_id", emp_id |-> e], rows,
          OrderBy(OfEmployee(part_attendance_records, e),
                  ByDateDesc(OfEmployee(part_attendance_records, e))),
          ok, "resultGetAttendanceOf")

PartGetAttendanceOfAnswers(r) == PartAnswersRows(r, "resultGetAttendanceOf")

\* ------------------------------------------------------------- part_000: GET /attendance
PartGetAttendance(r, q, rows, ok) ==
  PartSelects(r, [route |-> "GET /attendance", query |-> q], rows,
          OrderBy(Filtered(part_attendance_records, q),
                  ByDateDescEmpId(Filtered(part_attendance_records, q))),
          ok, "resultGetAttendance")

PartGetAttendanceAnswers(r) == PartAnswersRows(r, "resultGetAttendance")

\* ------------------------------------------------------------- part_000: GET /attendance-range
PartGetAttendanceRange(r, e, range, rows, ok) ==
  PartSelects(r, [route |-> "GET /attendance-range/:emp_id/:start_date/:end_date",
              emp_id |-> e, start_date |-> range[1], end_date |-> range[2]],
          rows,
          OrderBy(InRange(part_attendance_records, e, range[1], range[2]),
                  ByDateDesc(InRange(part_attendance_records, e, range[1],
                                     range[2]))),
          ok, "resultGetAttendanceRange")

PartGetAttendanceRangeAnswers(r) == PartAnswersRows(r, "resultGetAttendanceRange")

\* ------------------------------------------------------------- part_000: dispatch
\* a step of part_000 alone
PartAlone(A) == A /\ ServerIdle /\ UNCHANGED <<now, refused>>

\* the step the handler of part_000 for request r takes from where it stands, the bodies
\* of the requests drawn from these sets
PartServes(r, employeeBodies, attendanceBodies) ==
  \/ /\ part_pc[r] = "idle"
     /\ \E b \in employeeBodies, ok \in BOOLEAN : PartAlone(PartPostEmployees(r, b, ok))
  \/ /\ part_pc[r] = "resultPostEmployees"
     /\ PartAlone(PartPostEmployeesAnswers(r))
  \/ /\ part_pc[r] = "idle"
     /\ \E id \in DeleteIds, ok \in BOOLEAN : PartAlone(PartDeleteAttendance(r, id, ok))
  \/ /\ part_pc[r] = "resultDelete"
     /\ PartAlone(PartDeleteAttendanceAnswers(r))
  \/ /\ part_pc[r] = "idle"
     /\ \E b \in attendanceBodies, connected \in BOOLEAN,
           outcome \in RejectedOutcomes :
          PartAlone(PartAttStart(r, b, connected, outcome))
  \/ /\ part_pc[r] = "begin"
     /\ \E ok \in BOOLEAN : PartAlone(PartAttBegin(r, ok))
  \/ /\ part_pc[r] = "employee"
     /\ \E ok \in BOOLEAN : PartAlone(PartAttEmployee(r, ok))
  \/ /\ part_pc[r] = "record"
     /\ \E ok \in BOOLEAN : PartAlone(PartAttRecord(r, ok))
  \/ /\ part_pc[r] = "commit"
     /\ \E ok \in BOOLEAN : PartAlone(PartAttCommit(r, ok))
  \/ /\ part_pc[r] = "resultCommit"
     /\ PartAlone(PartAttAnswers(r))
  \/ /\ part_pc[r] = "rollback"
     /\ \E ok \in BOOLEAN, ended \in BOOLEAN : PartAlone(PartAttRollback(r, ok, ended))
  \/ /\ part_pc[r] = "resultRollback"
     /\ \E outcome \in RejectedOutcomes : PartAlone(PartAttCaught(r, outcome))
  \/ /\ part_conn[r] = "released"
     /\ PartAlone(PartSessionEnds(r))
  \/ /\ part_pc[r] = "idle"
     /\ \E ok \in BOOLEAN : PartAlone(PartStatsTotalEmployees(r, ok))
  \/ /\ part_pc[r] = "totalRecords"
     /\ \E ok \in BOOLEAN : PartAlone(PartStatsTotalRecords(r, ok))
  \/ /\ part_pc[r] = "wfoRecords"
     /\ \E ok \in BOOLEAN : PartAlone(PartStatsWfoRecords(r, ok))
  \/ /\ part_pc[r] = "wfhRecords"
     /\ \E ok \in BOOLEAN : PartAlone(PartStatsWfhRecords(r, ok))
  \/ /\ part_pc[r] = "attendanceByType"
     /\ \E ok \in BOOLEAN,
           rows \in OrderByCountDesc(GroupByType(part_attendance_records)) :
          PartAlone(PartStatsAttendanceByType(r, rows, ok))
  \/ /\ part_pc[r] = "resultStats"
     /\ PartAlone(PartStatsAnswers(r))

\* ------------------------------------------------------------- part_000: body parser
\* app.use(express.json()): the parser refuses the body, the route does not
\* run, and, part_000 having no error-handling middleware, the default
\* handler of Express answers err.status with a page that is not JSON
PartBodyRefused(r, route, err) ==
  /\ PartArrives(r)
  /\ err \in ParserErrors
  /\ PartEnds(r)
  /\ part_last' = Exchange(
       [route |-> route, parser |-> err.status, message |-> err.message],
       <<Response(err.status, "", 0, "") @@ [html |-> "<pre>Error</pre>"]>>,
       "", PartCommitted, PartCommitted, now)
  /\ UNCHANGED <<part_employees, part_attendance_records, part_id_seq,
                 part_conn, part_txn, part_stats, part_checked_out,
                 part_process, part_boot>>

\* ------------------------------------------------------------- part_000: startup
\* part_000 starts: initializeDatabase_table() has been called and is not
\* awaited, so requests are served while it runs
InitPartBoot ==
  /\ \E s \in StoredAtStart : PartStarts(s, "connect")
  /\ now = 1
  /\ NoServer

\* const client = await pool.connect(), outside the try block: when it
\* rejects, the promise of initializeDatabase_table is rejected and logged
PartBootConnect ==
  /\ part_process = "running"
  /\ part_boot = "connect"
  /\ \E connected \in BOOLEAN :
       IF connected
       THEN /\ part_boot' = BootStatements[1]
            /\ part_checked_out' = part_checked_out + 1
       ELSE /\ part_boot' = "failed"
            /\ UNCHANGED part_checked_out
  /\ part_last' = NoExchange
  /\ UNCHANGED <<part_employees, part_attendance_records, part_id_seq, part_pc,
                 part_req, part_conn, part_txn, part_stats, part_process>>

\* await client.query(CREATE TABLE IF NOT EXISTS ... / CREATE INDEX IF NOT
\* EXISTS ...): the rows stored stay; a statement that fails goes to the
\* catch block, which logs the error and does not rethrow it
PartBootQuery ==
  /\ part_process = "running"
  /\ \E i \in DOMAIN BootStatements, ok \in BOOLEAN :
       /\ part_boot = BootStatements[i]
       /\ part_boot' = IF ~ ok THEN "caught"
                       ELSE IF i < Len(BootStatements)
                       THEN BootStatements[i + 1]
                       ELSE "release"
  /\ part_last' = NoExchange
  /\ UNCHANGED <<part_employees, part_attendance_records, part_id_seq, part_pc,
                 part_req, part_conn, part_txn, part_stats, part_checked_out,
                 part_process>>

\* finally { client.release() }; the function returns on both paths
PartBootRelease ==
  /\ part_process = "running"
  /\ part_boot \in {"release", "caught"}
  /\ part_checked_out' = part_checked_out - 1
  /\ part_boot' = "done"
  /\ part_last' = NoExchange
  /\ UNCHANGED <<part_employees, part_attendance_records, part_id_seq, part_pc,
                 part_req, part_conn, part_txn, part_stats, part_process>>

NextPartBoot ==
  \/ Tick
  \/ PartAlone(PartPoolError)
  \/ \E r \in Reqs : PartServes(r, BootEmployeeBodies, BootAttendanceBodies)
  \/ PartAlone(PartBootConnect)
  \/ PartAlone(PartBootQuery)
  \/ PartAlone(PartBootRelease)

SpecPartBoot == InitPartBoot /\ [][NextPartBoot]_vars

\* ------------------------------------------------------------- side by side
\* the Origin header of a request: none, two that server.js allows, two that
\* it does not
Origins == {Absent, "http://localhost:5173", "https://preview.vercel.app",
            "https://elsewhere.example", "http://localhost:8080"}

\* the bodies and the queries of the requests fed to the two deployments
FedEmployeeBodies ==
  {BaseEmployeeBody, [BaseEmployeeBody EXCEPT !.name = "Bob"],
   [BaseEmployeeBody EXCEPT !.name = Absent]}
FedAttendanceBodies ==
  {BaseAttendanceBody,
   [BaseAttendanceBody EXCEPT !.emp_id = "E2", !.attendance_type = "WFH"],
   [BaseAttendanceBody EXCEPT !.date = ""]}
Filters ==
  {[start_date |-> Absent, end_date |-> Absent, attendance_type |-> Absent],
   [start_date |-> "2024-01-10", end_date |-> "2024-01-10",
    attendance_type |-> "WFH"]}

\* the tables the two deployments are fed on: one employee and one record
\* of theirs are stored already
FedAtStart == {s \in StoredAtStart : s.attendance_records # {}}

\* the start and end dates of the range requests: one range around the date
\* of the records, one after it
Ranges == {<<"2024-01-09", "2024-01-10">>, <<"2024-01-11", "2024-01-11">>}

\* the routes that read req.body
BodyRoutes == {"POST /employees", "POST /attendance"}

\* server.js and part_000 start on databases of their own with the same
\* table contents
InitEntry ==
  /\ \E s \in FedAtStart : ServerStarts(s, "done") /\ PartStarts(s, "done")
  /\ now = 1

\* One step of a request in the two deployments, which are fed the same
\* requests and get the same storage outcomes: at is whether the handler of
\* the deployment stands at the step. Both take it when both stand at it;
\* one takes it alone when the other stands elsewhere (its handler ended
\* earlier, or its process has exited).
Pair(atServer, A, atPart, B) ==
  /\ atServer \/ atPart
  /\ IF atServer THEN A ELSE ServerIdle
  /\ IF atPart THEN B ELSE PartIdle
  /\ UNCHANGED now

\* a request with Origin header o arrives at both: cors() of part_000
\* passes it to the route, the origin callback of server.js may refuse it
Arrival(r, o, route, A, B) ==
  /\ Pair(Arrives(r), IF OriginAllowed(o) THEN A ELSE Refuses(r, o, route),
          PartArrives(r), B)
  /\ refused' = IF Arrives(r) /\ ~ OriginAllowed(o) THEN refused + 1
                ELSE refused

\* a later step of the handlers of r
Step(at, r, A, B) ==
  /\ Pair(pc[r] = at, A, part_pc[r] = at, B)
  /\ UNCHANGED refused

\* the storage of the two deployments returns equal rows in the same order
SameOrder(serverRows, rows, partRows, prows) ==
  serverRows = partRows => rows = prows

Feeds(r) ==
  \/ /\ Arrives(r) \/ PartArrives(r)
     /\ \E o \in Origins, b \in FedEmployeeBodies, ok \in BOOLEAN :
          Arrival(r, o, "POST /employees", PostEmployees(r, b, ok),
                  PartPostEmployees(r, b, ok))
  \/ /\ pc[r] = "resultPostEmployees" \/ part_pc[r] = "resultPostEmployees"
     /\ Step("resultPostEmployees", r, PostEmployeesAnswers(r),
             PartPostEmployeesAnswers(r))
  \/ /\ Arrives(r) \/ PartArrives(r)
     /\ \E o \in Origins, id \in DeleteIds, ok \in BOOLEAN :
          Arrival(r, o, "DELETE /attendance/:id", DeleteAttendance(r, id, ok),
                  PartDeleteAttendance(r, id, ok))
  \/ /\ pc[r] = "resultDelete" \/ part_pc[r] = "resultDelete"
     /\ Step("resultDelete", r, DeleteAttendanceAnswers(r),
             PartDeleteAttendanceAnswers(r))
  \/ /\ Arrives(r) \/ PartArrives(r)
     /\ \E o \in Origins, ok \in BOOLEAN,
           rows \in OrderBy(employees, ByName(employees)),
           prows \in OrderBy(part_employees, ByName(part_employees)) :
          /\ SameOrder(employees, rows, part_employees, prows)
          /\ Arrival(r, o, "GET /employees", GetEmployees(r, rows, ok),
                     PartGetEmployees(r, prows, ok))
  \/ /\ pc[r] = "resultGetEmployees" \/ part_pc[r] = "resultGetEmployees"
     /\ Step("resultGetEmployees", r, GetEmployeesAnswers(r),
             PartGetEmployeesAnswers(r))
  \/ /\ Arrives(r) \/ PartArrives(r)
     /\ \E o \in Origins, e \in EmpIds, ok \in BOOLEAN :
        \E rows \in OrderBy(OfEmployee(attendance_records, e),
                      ByDateDesc(OfEmployee(attendance_records, e))),
           prows \in OrderBy(OfEmployee(part_attendance_records, e),
                       ByDateDesc(OfEmployee(part_attendance_records, e))) :
          /\ SameOrder(OfEmployee(attendance_records, e), rows,
                       OfEmployee(part_attendance_records, e), prows)
          /\ Arrival(r, o, "GET /attendance/:emp_id",
                     GetAttendanceOf(r, e, rows, ok),
                     PartGetAttendanceOf(r, e, prows, ok))
  \/ /\ pc[r] = "resultGetAttendanceOf" \/ part_pc[r] = "resultGetAttendanceOf"
     /\ Step("resultGetAttendanceOf", r, GetAttendanceOfAnswers(r),
             PartGetAttendanceOfAnswers(r))
  \/ /\ Arrives(r) \/ PartArrives(r)
     /\ \E o \in Origins, q \in Filters, ok \in BOOLEAN :
        \E rows \in OrderBy(Filtered(attendance_records, q),
                      ByDateDescEmpId(Filtered(attendance_records, q))),
           prows \in OrderBy(Filtered(part_attendance_records, q),
                       ByDateDescEmpId(Filtered(part_attendance_records, q))) :
          /\ SameOrder(Filtered(attendance_records, q), rows,
                       Filtered(part_attendance_records, q), prows)
          /\ Arrival(r, o, "GET /attendance", GetAttendance(r, q, rows, ok),
                     PartGetAttendance(r, q, prows, ok))
  \/ /\ pc[r] = "resultGetAttendance" \/ part_pc[r] = "resultGetAttendance"
     /\ Step("resultGetAttendance", r, GetAttendanceAnswers(r),
             PartGetAttendanceAnswers(r))
  \/ /\ Arrives(r) \/ PartArrives(r)
     /\ \E o \in Origins, b \in FedAttendanceBodies, connected \in BOOLEAN,
           outcome \in RejectedOutcomes :
          Arrival(r, o, "POST /attendance", AttStart(r, b, connected, outcome),
                  PartAttStart(r, b, connected, outcome))
  \/ /\ Arrives(r) \/ PartArrives(r)
     /\ \E o \in Origins, e \in EmpIds, range \in Ranges, ok \in BOOLEAN :
        \E rows \in OrderBy(InRange(attendance_records, e, range[1], range[2]),
                      ByDateDesc(InRange(attendance_records, e, range[1],
                                         range[2]))),
           prows \in OrderBy(InRange(part_attendance_records, e, range[1],
                                     range[2]),
                       ByDateDesc(InRange(part_attendance_records, e,
                                          range[1], range[2]))) :
          /\ SameOrder(InRange(attendance_records, e, range[1], range[2]),
                       rows,
                       InRange(part_attendance_records, e, range[1], range[2]),
                       prows)
          /\ Arrival(r, o,
                     "GET /attendance-range/:emp_id/:start_date/:end_date",
                     GetAttendanceRange(r, e, range, rows, ok),
                     PartGetAttendanceRange(r, e, range, prows, ok))
  \/ /\ pc[r] = "resultGetAttendanceRange"
        \/ part_pc[r] = "resultGetAttendanceRange"
     /\ Step("resultGetAttendanceRange", r, GetAttendanceRangeAnswers(r),
             PartGetAttendanceRangeAnswers(r))
  \/ /\ Arrives(r) \/ PartArrives(r)
     /\ \E o \in Origins, route \in BodyRoutes, err \in ParserErrors :
          Arrival(r, o, route, BodyRefused(r, o, route, err),
                  PartBodyRefused(r, route, err))
  \/ /\ pc[r] = "begin" \/ part_pc[r] = "begin"
     /\ \E ok \in BOOLEAN :
          Step("begin", r, AttBegin(r, ok), PartAttBegin(r, ok))
  \/ /\ pc[r] = "employee" \/ part_pc[r] = "employee"
     /\ \E ok \in BOOLEAN :
          Step("employee", r, AttEmployee(r, ok), PartAttEmployee(r, ok))
  \/ /\ pc[r] = "record" \/ part_pc[r] = "record"
     /\ \E ok \in BOOLEAN :
          Step("record", r, AttRecord(r, ok), PartAttRecord(r, ok))
  \/ /\ pc[r] = "commit" \/ part_pc[r] = "commit"
     /\ \E ok \in BOOLEAN :
          Step("commit", r, AttCommit(r, ok), PartAttCommit(r, ok))
  \/ /\ pc[r] = "resultCommit" \/ part_pc[r] = "resultCommit"
     /\ Step("resultCommit", r, AttAnswers(r), PartAttAnswers(r))
  \/ /\ pc[r] = "rollback" \/ part_pc[r] = "rollback"
     /\ \E ok \in BOOLEAN, ended \in BOOLEAN :
          Step("rollback", r, AttRollback(r, ok, ended),
               PartAttRollback(r, ok, ended))
  \/ /\ pc[r] = "resultRollback" \/ part_pc[r] = "resultRollback"
     /\ \E outcome \in RejectedOutcomes :
          Step("resultRollback", r, AttCaught(r, outcome),
               PartAttCaught(r, outcome))
  \/ /\ conn[r] = "released" \/ part_conn[r] = "released"
     /\ Pair(conn[r] = "released", SessionEnds(r),
             part_conn[r] = "released", PartSessionEnds(r))
     /\ UNCHANGED refused
  \/ /\ Arrives(r) \/ PartArrives(r)
     /\ \E o \in Origins, ok \in BOOLEAN :
          Arrival(r, o, "GET /stats", StatsTotalEmployees(r, ok),
                  PartStatsTotalEmployees(r, ok))
  \/ /\ pc[r] = "totalRecords" \/ part_pc[r] = "totalRecords"
     /\ \E ok \in BOOLEAN :
          Step("totalRecords", r, StatsTotalRecords(r, ok),
               PartStatsTotalRecords(r, ok))
  \/ /\ pc[r] = "wfoRecords" \/ part_pc[r] = "wfoRecords"
     /\ \E ok \in BOOLEAN :
          Step("wfoRecords", r, StatsWfoRecords(r, ok),
               PartStatsWfoRecords(r, ok))
  \/ /\ pc[r] = "wfhRecords" \/ part_pc[r] = "wfhRecords"
     /\ \E ok \in BOOLEAN :
          Step("wfhRecords", r, StatsWfhRecords(r, ok),
               PartStatsWfhRecords(r, ok))
  \/ /\ pc[r] = "attendanceByType" \/ part_pc[r] = "attendanceByType"
     /\ \E ok \in BOOLEAN,
           rows \in OrderByCountDesc(GroupByType(attendance_records)),
           prows \in OrderByCountDesc(GroupByType(part_attendance_records)) :
          /\ SameOrder(GroupByType(attendance_records), rows,
                       GroupByType(part_attendance_records), prows)
          /\ Step("attendanceByType", r, StatsAttendanceByType(r, rows, ok),
                  PartStatsAttendanceByType(r, prows, ok))
  \/ /\ pc[r] = "resultStats" \/ part_pc[r] = "resultStats"
     /\ Step("resultStats", r, StatsAnswers(r), PartStatsAnswers(r))

\* the pool of each deployment reports an error of an idle client
PoolErrors ==
  /\ Pair(process = "running", PoolError,
          part_process = "running", PartPoolError)
  /\ UNCHANGED refused

NextEntry ==
  \/ Tick
  \/ PoolErrors
  \/ \E r \in Reqs : Feeds(r)

SpecEntry == InitEntry /\ [][NextEntry]_vars

\* ------------------------------------------------------------- shape
TypeOK ==
  /\ id_seq \in 0..(MaxReq + 1)
  /\ now \in 1..MaxClock
  /\ Len(last.sent) <= 1

\* ------------------------------------------------------------- claims
\* the exchange the last step ended
Ended(route) == last.request.route = route
Status == IF Len(last.sent) = 1 THEN last.sent[1].status ELSE 0
Succeeded(route) == Ended(route) /\ Status = 200

\* the committed tables as the last storage call of that exchange left them
After == last.after

RowsFor(recs, e, d) == {x \in recs : x.emp_id = e /\ x.date = d}
RowsOf(emps, e) == {x \in emps : x.emp_id = e}

\* C1: attendance_records never holds two rows with the same emp_id and the
\* same date, whatever requests were served and however they ended.
C1_OneRecordPerEmployeeAndDate ==
  \A x \in attendance_records, y \in attendance_records :
    (x.emp_id = y.emp_id /\ x.date = y.date) => x = y

\* a POST /attendance has succeeded for a pair that had a row already, beside
\* a row of another pair
C1_Witness ==
  /\ Succeeded("POST /attendance")
  /\ RowsFor(last.before.attendance_records, last.request.body.emp_id,
             last.request.body.date) # {}
  /\ Cardinality(After.attendance_records) >= 2

\* the row the exchange that ended wrote, and the row it found for its pair
Body == last.request.body
NewRecords == RowsFor(After.attendance_records, Body.emp_id, Body.date)
OldRecords == RowsFor(last.before.attendance_records, Body.emp_id, Body.date)

\* C2 as claimed: a successful POST /attendance for a pair that has a row
\* returns the id of that row, leaves one row for the pair, with that id, the
\* emp_name and attendance_type of the request, and a timestamp not earlier
\* than the one the row had.
C2_AsClaimed ==
  (Succeeded("POST /attendance") /\ OldRecords # {}) =>
    \A old \in OldRecords :
      /\ last.sent[1].id = old.id
      /\ \E new \in NewRecords :
           /\ NewRecords = {new}
           /\ new.id = old.id
           /\ new.emp_name = Body.emp_name
           /\ new.attendance_type = Body.attendance_type
           /\ new.timestamp >= old.timestamp

\* C2, amended: the COMMIT of a POST /attendance for a pair that has a row
\* leaves one row for the pair: that row with the emp_name and
\* attendance_type of the request, and with the time its transaction began
\* (its BEGIN) as timestamp; the handler then answers 200 with the id of
\* that row.
C2_SameIdLatestTypeTimestampOfBegin ==
  [][\A r \in Reqs :
       /\ (/\ pc[r] = "commit"
           /\ pc'[r] = "resultCommit"
           /\ RowsFor(attendance_records, req[r].body.emp_id,
                      req[r].body.date) # {})
          => \A old \in RowsFor(attendance_records, req[r].body.emp_id,
                                req[r].body.date) :
               /\ txn'[r].id = old.id
               /\ RowsFor(attendance_records', req[r].body.emp_id,
                          req[r].body.date)
                    = {[old EXCEPT
                          !.emp_name = req[r].body.emp_name,
                          !.attendance_type = req[r].body.attendance_type,
                          !.timestamp = txn[r].start]}
               /\ attendance_records' \ attendance_records
                    \subseteq RowsFor(attendance_records', req[r].body.emp_id,
                                      req[r].body.date)
               /\ txn'[r].before = Committed
               /\ txn'[r].after = Committed'
       /\ (pc[r] = "resultCommit" /\ pc'[r] = "done" /\ process' = "running")
          => /\ Succeeded("POST /attendance")'
             /\ last'.request = req[r]
             /\ last'.sent[1].id = txn[r].id
             /\ last'.before = txn[r].before
             /\ last'.after = txn[r].after]_vars

\* a POST /attendance has succeeded for a pair whose row had another
\* attendance_type and another emp_name
C2_Witness ==
  /\ Succeeded("POST /attendance")
  /\ \E old \in OldRecords :
       /\ old.attendance_type # Body.attendance_type
       /\ old.emp_name # Body.emp_name
       /\ \E new \in NewRecords : new.id = old.id

\* C3 as claimed: a POST /attendance whose employee upsert or attendance
\* upsert failed ends with the committed tables as they were and with one
\* response, 500, carrying the message of the error that was thrown.
C3_RolledBackAndAnswered500 ==
  (Ended("POST /attendance")
     /\ last.failed \in {"employee upsert", "record upsert"}) =>
    /\ After = last.before
    /\ Len(last.sent) = 1
    /\ last.sent[1].status = 500
    /\ last.sent[1].error \in {StorageError, ForeignKeyError}

\* C4: every row of attendance_records has the emp_id of a row of employees,
\* and no step removes an employee.
ReferentialIntegrity ==
  \A x \in attendance_records : \E y \in employees : y.emp_id = x.emp_id

C4_RecordsReferenceEmployees ==
  /\ []ReferentialIntegrity
  /\ [][\A x \in employees : \E y \in employees' : y.emp_id = x.emp_id]_vars

\* a POST /attendance for an employee that was unknown has committed its
\* record
C4_Witness ==
  /\ Succeeded("POST /attendance")
  /\ RowsOf(last.before.employees, Body.emp_id) = {}
  /\ NewRecords # {}
  /\ Cardinality(After.employees) >= 2

\* C5: a successful POST /attendance has left, at its COMMIT, a row for the
\* employee of the request, and the name in it is the emp_name of the
\* request.
C5_EmployeeHasTheNameOfTheRequest ==
  Succeeded("POST /attendance") =>
    /\ RowsOf(After.employees, Body.emp_id) # {}
    /\ \A x \in RowsOf(After.employees, Body.emp_id) : x.name = Body.emp_name
    /\ (RowsOf(last.before.employees, Body.emp_id) = {}) =>
         RowsOf(After.employees, Body.emp_id) \cap last.before.employees = {}

\* a POST /attendance has succeeded for an employee stored under another name
C5_Witness ==
  /\ Succeeded("POST /attendance")
  /\ \E x \in RowsOf(last.before.employees, Body.emp_id) :
       x.name # Body.emp_name

\* a POST /attendance has succeeded for an employee that was unknown
C5_WitnessCreated ==
  /\ Succeeded("POST /attendance")
  /\ RowsOf(last.before.employees, Body.emp_id) = {}

\* C6: employees holds one row for an emp_id, the upsert of a successful
\* POST /employees leaves the name of its request in the row of its emp_id,
\* and the rows of employees change only in the step in which the storage
\* executes the upsert of a POST /employees or the COMMIT of a
\* POST /attendance, which changes the row of its own emp_id alone: the name
\* in a row is the name of the upsert of its emp_id that was executed last.
OneRowPerEmployee ==
  \A x \in employees, y \in employees : x.emp_id = y.emp_id => x = y

PostEmployeesStoresName ==
  Succeeded("POST /employees") =>
    \E x \in After.employees : x.emp_id = Body.emp_id /\ x.name = Body.name

NameOfRequest(request) ==
  IF request.route = "POST /employees" THEN request.body.name
  ELSE request.body.emp_name

OnlyUpsertsChangeEmployees ==
  employees' # employees =>
    \E r \in Reqs :
      /\ \/ pc[r] = "idle" /\ pc'[r] = "resultPostEmployees"
         \/ pc[r] = "commit" /\ pc'[r] = "resultCommit"
      /\ txn'[r].err = ""
      /\ txn'[r].before = Committed /\ txn'[r].after = Committed'
      /\ \A x \in (employees \cup employees') \ (employees \cap employees') :
           x.emp_id = req'[r].body.emp_id
      /\ \A x \in employees' \ employees : x.name = NameOfRequest(req'[r])

C6_OneRowWithTheLatestName ==
  /\ [](OneRowPerEmployee /\ PostEmployeesStoresName)
  /\ [][OnlyUpsertsChangeEmployees]_vars

\* a POST /employees has succeeded for an employee stored under another name
C6_Witness ==
  /\ Succeeded("POST /employees")
  /\ \E x \in RowsOf(last.before.employees, Body.emp_id) : x.name # Body.name
  /\ Cardinality(After.employees) >= 2

\* C7 as claimed: a successful POST /employees with the emp_id and name that
\* a row already holds leaves the table as it was, column for column.
C7_AsClaimed ==
  (/\ Succeeded("POST /employees")
   /\ \E x \in last.before.employees :
        x.emp_id = Body.emp_id /\ x.name = Body.name)
  => After.employees = last.before.employees

\* C7, amended: the upsert of a successful POST /employees with the emp_id
\* and name that a row already holds changes nothing but updated_at of that
\* row, which becomes the time of the upsert: emp_id, name and created_at
\* stay, and so does every other row.
C7_IdempotentButForUpdatedAt ==
  Succeeded("POST /employees") =>
    \A x \in last.before.employees :
      (x.emp_id = Body.emp_id /\ x.name = Body.name) =>
        After.employees =
          (last.before.employees \ {x})
            \cup {[x EXCEPT !.updated_at = last.at]}

\* a POST /employees has succeeded with the emp_id and name of a row written
\* at an earlier time
C7_Witness ==
  /\ Succeeded("POST /employees")
  /\ \E x \in last.before.employees :
       /\ x.emp_id = Body.emp_id
       /\ x.name = Body.name
       /\ x.updated_at < last.at
       /\ x.created_at < last.at

\* C8: a DELETE /attendance/:id whose statement ran answers 404, the
\* statement having left both tables as they were, when no row has the id,
\* and otherwise answers 200, the statement having removed the one row with
\* the id and left every other row of both tables; a DELETE whose statement
\* failed changes nothing either.
C8_DeleteRemovesThatRowOr404 ==
  Ended("DELETE /attendance/:id") =>
    LET hit == {x \in last.before.attendance_records : x.id = last.request.id}
    IN /\ After.employees = last.before.employees
       /\ IF last.failed # ""
          THEN After = last.before
          ELSE IF hit = {}
          THEN /\ Status = 404
               /\ After = last.before
          ELSE /\ Status = 200
               /\ Cardinality(hit) = 1
               /\ After.attendance_records
                    = last.before.attendance_records \ hit

\* a DELETE has removed one of two rows
C8_Witness ==
  /\ Succeeded("DELETE /attendance/:id")
  /\ Cardinality(last.before.attendance_records) = 2
  /\ Cardinality(After.attendance_records) = 1

\* a DELETE has answered 404 with a row stored
C8_WitnessNotFound ==
  /\ Ended("DELETE /attendance/:id")
  /\ Status = 404
  /\ After.attendance_records # {}

\* C9: a POST /employees without emp_id or name, and a POST /attendance
\* without emp_id, emp_name, attendance_type or date (absent or empty), ends
\* in the step it arrives in, answered 400, and that step changes no table,
\* draws no id, takes no pool client and begins no transaction.
AbsentOrEmpty(v) == v = Absent \/ v = ""

LacksField(request) ==
  \/ /\ request.route = "POST /employees"
     /\ \E f \in {"emp_id", "name"} : AbsentOrEmpty(request.body[f])
  \/ /\ request.route = "POST /attendance"
     /\ \E f \in {"emp_id", "emp_name", "attendance_type", "date"} :
          AbsentOrEmpty(request.body[f])

C9_MissingFieldsAnswered400 ==
  [][\A r \in Reqs :
       /\ (pc[r] = "idle" /\ pc'[r] # "idle" /\ req'[r] # NoReq) =>
            ~ LacksField(req'[r])
       /\ (pc'[r] = "done" /\ pc[r] # "done" /\ LacksField(last'.request)) =>
            /\ pc[r] = "idle"
            /\ Len(last'.sent) = 1
            /\ last'.sent[1].status = 400
            /\ last'.failed = ""
            /\ UNCHANGED <<employees, attendance_records, id_seq, conn, txn,
                           checked_out>>]_vars

\* a POST /attendance without date has been answered 400, with rows stored
C9_Witness ==
  /\ Ended("POST /attendance")
  /\ AbsentOrEmpty(Body.date)
  /\ Status = 400
  /\ After.employees # {}

\* C10 as claimed: a request one of whose storage calls failed ends with one
\* response, an error response with a message.
C10_EveryFailureAnsweredOnce ==
  last.failed # "" =>
    /\ Len(last.sent) = 1
    /\ last.sent[1].status >= 500
    /\ last.sent[1].error # ""

\* ------------------------------------------------------------- C11
\* the sum of parseInt(count) over the rows of attendanceByType
RECURSIVE SumOfCounts(_)
SumOfCounts(rows) ==
  IF rows = <<>> THEN 0
  ELSE parseInt(Head(rows).count) + SumOfCounts(Tail(rows))

\* the count of the group of this type, 0 when the type has no group
CountOfGroup(rows, t) ==
  IF \E i \in DOMAIN rows : rows[i].attendance_type = t
  THEN parseInt(rows[CHOOSE i \in DOMAIN rows : rows[i].attendance_type = t].count)
  ELSE 0

StatsAgree(st) ==
  /\ st.totalRecords = SumOfCounts(st.attendanceByType)
  /\ st.wfoRecords = CountOfGroup(st.attendanceByType, "WFO")
  /\ st.wfhRecords = CountOfGroup(st.attendanceByType, "WFH")

\* C11 as the claim states it: in every 200 response of GET /stats,
\* totalRecords is the sum of the counts of the attendanceByType groups and
\* wfoRecords and wfhRecords are the counts of the groups 'WFO' and 'WFH',
\* whatever commits fall between the five queries.
C11_AsClaimed ==
  Succeeded("GET /stats") => StatsAgree(last.sent[1])

\* C11, corrected: in every 200 response of GET /stats, each of
\* totalRecords, wfoRecords, wfhRecords and the groups of attendanceByType is
\* the count over attendance_records as its own query read the table; the
\* counts agree with the groups when the four queries on attendance_records
\* read the same rows, that is when no POST /attendance or DELETE committed a
\* change of the table between them.
C11_CountsAgreeWhenTableUnchanged ==
  Succeeded("GET /stats") =>
    LET st == last.sent[1]
    IN /\ \E t \in last.reads : st.totalRecords = Cardinality(t)
       /\ \E t \in last.reads : st.wfoRecords = Cardinality(OfType(t, "WFO"))
       /\ \E t \in last.reads : st.wfhRecords = Cardinality(OfType(t, "WFH"))
       /\ SumOfCounts(st.attendanceByType)
            = Cardinality(After.attendance_records)
       /\ After.attendance_records \in last.reads
       /\ Cardinality(last.reads) = 1 => StatsAgree(st)

\* a stats response over two records of two types, read from one unchanged
\* table
C11_Witness ==
  /\ Succeeded("GET /stats")
  /\ Cardinality(last.reads) = 1
  /\ last.sent[1].totalRecords = 2
  /\ Len(last.sent[1].attendanceByType) = 2

\* a stats response whose queries were interleaved with a commit
C11_WitnessInterleaved ==
  /\ Succeeded("GET /stats")
  /\ Cardinality(last.reads) = 2

\* ------------------------------------------------------------- C12
\* what a POST /attendance with body b leaves of tables db when it runs with
\* no other request in flight, at time ts, its record upsert drawing newid
RunsAlone(db, b, ts, newid) ==
  Tables(UpsertEmployee(db.employees, b.emp_id, b.emp_name, ts),
         UpsertRecord(db.attendance_records, newid, b.emp_id, b.emp_name,
                      b.attendance_type, b.date, ts))

\* the latest time written in any row of db (0 when db is empty)
LatestTime(db) ==
  LET times == {0} \cup {x.created_at : x \in db.employees}
                   \cup {x.updated_at : x \in db.employees}
                   \cup {x.timestamp : x \in db.attendance_records}
  IN CHOOSE t \in times : \A u \in times : u <= t

\* db without its time columns
Timeless(db) ==
  Tables({[emp_id |-> x.emp_id, name |-> x.name] : x \in db.employees},
         {[id |-> x.id, emp_id |-> x.emp_id, emp_name |-> x.emp_name,
           attendance_type |-> x.attendance_type, date |-> x.date] :
            x \in db.attendance_records})

\* the employee key a POST /attendance in flight writes
KeyOf(r) == EmployeeKey([emp_id |-> req[r].body.emp_id,
                         name |-> req[r].body.emp_name])

\* a request that waits for a row lock waits for a transaction on the same
\* employee that can itself take its next step
WaitsOnlyForSameEmployee ==
  \A r \in Reqs :
    /\ pc[r] = "employee" /\ EmpBlocked(r, KeyOf(r)) =>
         \E o \in Reqs \ {r} :
           /\ OpenTx(o) /\ KeyOf(r) \in txn[o].empLocks
           /\ \/ pc[o] \in {"record", "commit", "rollback", "resultRollback"}
              \/ conn[o] = "released"
           /\ pc[o] = "record" => ~ RecBlocked(o, AttendanceKey(req[o].body))
    /\ pc[r] = "record" => ~ RecBlocked(r, AttendanceKey(req[r].body))

\* C12 as the claim states it: whatever the interleaving, the tables a
\* successful POST /attendance leaves equal the tables of a run in which the
\* requests ran one after the other, so that the request that committed last
\* ran last and wrote a time no earlier than the one the other request stored
\* in the record of the pair.
C12_AsClaimed ==
  Succeeded("POST /attendance") =>
    \E ts \in 1..now :
      /\ ts >= LatestTime(Tables({}, OldRecords))
      /\ After = RunsAlone(last.before, Body, ts, last.sent[1].id)

\* C12, corrected: every interleaving is a serial run in the order of the
\* commits. The COMMIT of a successful POST /attendance changes the committed
\* tables to what the request leaves when it runs alone on them, at the time
\* of its BEGIN (which may be earlier than times the other request stored):
\* one record for the pair, with the id returned, whose emp_name and
\* attendance_type and the employee's name are all those of the request that
\* committed last, every other row untouched. A POST /attendance fails only
\* when one of its storage calls fails, and a request waits only for a
\* transaction on the same employee, which can always go on.
C12_SerialInCommitOrder ==
  /\ WaitsOnlyForSameEmployee
  /\ Ended("POST /attendance") /\ Status = 500 =>
       last.failed # "" /\ last.sent[1].error # ForeignKeyError
  /\ Succeeded("POST /attendance") =>
       /\ \E ts \in 1..now :
            After = RunsAlone(last.before, Body, ts, last.sent[1].id)
       /\ \E ts \in LatestTime(last.before)..now :
            Timeless(After) =
              Timeless(RunsAlone(last.before, Body, ts, last.sent[1].id))
       /\ \A x \in NewRecords : x.id = last.sent[1].id

\* a POST /attendance commits while another one, for the same employee and
\* date under another name, has begun and waits for the employee row
C12_Witness ==
  /\ Succeeded("POST /attendance")
  /\ \E o \in Reqs :
       /\ pc[o] = "employee"
       /\ req[o].body.emp_id = Body.emp_id
       /\ req[o].body.date = Body.date
       /\ req[o].body.emp_name # Body.emp_name

\* the second of two overlapping requests on one pair commits: the record it
\* updates was written by a transaction that began after its own
C12_WitnessCommittedLast ==
  /\ Succeeded("POST /attendance")
  /\ \E x \in OldRecords, y \in NewRecords :
       /\ x.id = y.id /\ x.emp_name # y.emp_name
       /\ y.timestamp < x.timestamp

\* ------------------------------------------------------------- C13
\* the handlers that hold a client: POST /attendance between pool.connect()
\* and client.release(), initializeDatabase_table between the same two calls
Holders ==
  IF process = "exited" THEN 0
  ELSE Cardinality({r \in Reqs : conn[r] \in {"idle", "intx", "aborted"}})
         + (IF boot \in {"connect", "done", "failed"} THEN 0 ELSE 1)

AllEnded ==
  /\ \A r \in Reqs : pc[r] \in {"idle", "done", "killed"}
  /\ boot \in {"done", "failed"} \/ process = "exited"

\* the same of part_000
PartHolders ==
  IF part_process = "exited" THEN 0
  ELSE Cardinality({r \in Reqs : part_conn[r] \in {"idle", "intx", "aborted"}})
         + (IF part_boot \in {"connect", "done", "failed"} THEN 0 ELSE 1)

PartAllEnded ==
  /\ \A r \in Reqs : part_pc[r] \in {"idle", "done", "killed"}
  /\ part_boot \in {"done", "failed"} \/ part_process = "exited"

\* every client acquired is released exactly once, on every path: the
\* clients checked out are those of the handlers between connect and
\* release, and none is checked out once every handler has ended
ReleasedExactlyOnce ==
  /\ checked_out = Holders
  /\ AllEnded => checked_out = 0
  /\ part_checked_out = PartHolders
  /\ PartAllEnded => part_checked_out = 0

\* C13 as the claim states it: every client acquired by POST /attendance or
\* by initializeDatabase_table is released exactly once, on every path; no
\* client is checked out once all handlers have ended; and no client is
\* released while its transaction is still open.
C13_ReleasedOnceAndNeverInTransaction ==
  /\ ReleasedExactlyOnce
  /\ \A r \in Reqs : conn[r] # "released"

\* ------------------------------------------------------------- C14
\* a response without the timestamp field that server.js adds
DataFields(response) ==
  [f \in DOMAIN response \ {"timestamp"} |-> response[f]]

\* the two deployments hold the same committed rows
SameTables ==
  /\ part_employees = employees
  /\ part_attendance_records = attendance_records

\* the last step ended a request in one of the deployments
JustEnded == last.request # NoReq \/ part_last.request # NoReq

\* the last storage call of the request that ended found and left the same
\* tables in both
SameChanges ==
  JustEnded => part_last.before = last.before /\ part_last.after = After

\* the last step ended the same request in both, with the same number of
\* responses, each with the same status code and the same data fields
SameAnswers ==
  JustEnded =>
    /\ part_last.request = last.request
    /\ Len(part_last.sent) = Len(last.sent)
    /\ \A i \in DOMAIN last.sent :
         DataFields(part_last.sent[i]) = DataFields(last.sent[i])

\* the response of the error-handling middleware of server.js to a rejected
\* handler promise
ByErrorMiddleware ==
  /\ Len(last.sent) = 1
  /\ last.sent[1].error \in {GenericError, "Database connection failed"}

\* the request that ended had a body that express.json() refused
ByBodyParser == "parser" \in DOMAIN last.request

C14_WitnessRefused ==
  /\ refused = 1
  /\ last = NoExchange
  /\ Len(part_last.sent) = 1
  /\ part_last.sent[1].status = 200
  /\ part_last.after # part_last.before
  /\ part_last.before = Committed
  /\ ~ SameTables

\* a POST /attendance whose body is not JSON, from an allowed origin:
\* server.js answers 500, part_000 400, and the tables stay
C14_WitnessBodyRefused ==
  /\ refused = 0
  /\ ByBodyParser
  /\ last.request.route = "POST /attendance"
  /\ Status = 500
  /\ Len(part_last.sent) = 1
  /\ part_last.sent[1].status = 400
  /\ SameTables

\* a POST /employees from an allowed origin whose body is not JSON and holds
\* the words CORS policy: server.js answers 403 'CORS Error' with the origin,
\* part_000 400
C14_WitnessBodyNamesCors ==
  /\ refused = 0
  /\ ByBodyParser
  /\ last.request.route = "POST /employees"
  /\ Status = 403
  /\ "origin" \in DOMAIN last.sent[1]
  /\ Len(part_last.sent) = 1
  /\ part_last.sent[1].status = 400
  /\ SameTables

\* a range request from an allowed origin is answered with the same stored
\* record by both
C14_WitnessRange ==
  /\ refused = 0
  /\ Succeeded("GET /attendance-range/:emp_id/:start_date/:end_date")
  /\ Len(last.sent[1].rows) = 1
  /\ part_last.sent[1].rows = last.sent[1].rows

\* a range request for dates after the records is answered with no row
C14_WitnessRangeEmpty ==
  /\ refused = 0
  /\ Succeeded("GET /attendance-range/:emp_id/:start_date/:end_date")
  /\ last.sent[1].rows = <<>>
  /\ \E x \in After.attendance_records : x.emp_id = last.request.emp_id
====
